---- MODULE Spec2Model ----
(***************************************************************************)
(* The submission judging pipeline: the Submission rows of the relational  *)
(* store, create_submission and the route's background judging task        *)
(* (app/api/routes/submissions.py), judge_submission and its helpers       *)
(* (app/services/judge_queue.py), and the DB-polling JudgeWorker           *)
(* (worker/judge_worker.py).                                               *)
(*                                                                         *)
(* Granularity: one action per transaction.  A step ends at a db.commit()  *)
(* or where the code blocks for a long time (run_code).  Row locks taken   *)
(* by SELECT ... FOR UPDATE SKIP LOCKED last until the locking session's   *)
(* next commit, as in PostgreSQL.  A commit flushes only the attributes    *)
(* whose value differs from the value the session loaded (the ORM's unit   *)
(* of work), and expires the session's objects.                           *)
(***************************************************************************)
EXTENDS Integers, Sequences, FiniteSets, TLC

\* ---------------------------------------------------------------- bounds
MaxSubs == 2

NumWorkers == 2

BatchSize == 2

MaxTests == 1
\* Calls of publish_status_sync.
MaxPublishes == 2
\* WebSocket connections to /ws/submissions/{id}.
MaxViewers == 1
\* Calls of enqueue_submission.
MaxEnqueues == 3
\* Tests passed to one call of DockerExecutor.execute.
MaxEngineTests == 2
\* Source files written by the engine.
MaxWrites == 2
\* Signals sent to one worker.
MaxSignals == 2

VARIABLES
    rows,         \* the committed submissions table: rows[i] is the row with id i
    db_tests,     \* the committed test_cases rows of the problem, ordered by `order`
    cache,        \* _test_case_cache of each process (0 = API, w = worker w)
    bg,           \* the background task judgeInBackground(i) of each submission
    wk,           \* each JudgeWorker: position in run_once and its session
    judged,       \* history: the processes that called judge_submission on i
    last_create,  \* what the last create_submission call returned or raised
    exec_result,  \* history: the last ExecutionResult run_code returned, and to whom
    queue,        \* the Redis list judge:queue, leftmost element first
    blocked,      \* the workers waiting in BRPOP on judge:queue, first come first
    dq,           \* each worker's dequeue_submission call: waiting, or what it returned
    pushed,       \* history: the ids passed to enqueue_submission, in LPUSH order
    popped,       \* history: the ids dequeue_submission returned, in BRPOP order
    last_get,     \* the last get_submission call: its arguments and what it returned
    snapshot,     \* the Redis keys sub:status:{id}: the payload, or expired / never set
    channel_log,  \* history: the payloads broadcast on submission:{id}, in order
    pub,          \* each process's publish_status_sync call: Redis commands issued
    calls,        \* history: the number of publish_status_sync calls begun
    sockets,      \* each submission_ws connection: position, inbox, messages sent
    engine,       \* a DockerExecutor under test: its inputs and what its runs returned
    loop          \* each JudgeWorker's run(): position, self.running, signals received

\* The state outside the database and the judging processes.
\* Redis pub/sub and the WebSocket connections.
pubsub_vars == <<snapshot, channel_log, pub, calls, sockets>>

\* The job queue.
queue_vars == <<queue, blocked, dq, pushed, popped>>

outside_vars == <<queue_vars, last_get, pubsub_vars, engine, loop>>

vars == <<rows, db_tests, cache, bg, wk, judged, last_create, exec_result, outside_vars>>

\* ------------------------------------------------------------- constants
API == 0

Workers == 1..NumWorkers

Procs == {API} \cup Workers

\* app/models/submission.py SubmissionStatus
Terminal ==
    {"accepted", "wrong_answer", "time_limit_exceeded",
     "memory_limit_exceeded", "runtime_error", "compilation_error"}

SubmissionStatus == {"pending", "running"} \cup Terminal

\* The reference data the service validates against: one problem, an active
\* language and an inactive one.  Ids outside these sets do not exist.
Problems == {1}

Languages == {1, 2}

ActiveLanguages == {1}

ProblemIds == {1, 2}

LanguageIds == {1, 2, 3}

\* The users that call the API (get_current_user).
UserIds == {1, 2}

\* ------------------------------------------------------------ test cases
\* A cached test case dict; input and expected_output are opaque strings and
\* are represented by the keys that carry them.
TestCaseDict(k, h) == [id |-> k, is_hidden |-> h]

NoCache == [hit |-> FALSE, tests |-> <<>>]

\* get_test_cases: the cached list when present, else the rows of the store.
get_test_cases(p) ==
    IF cache[p].hit THEN cache[p].tests ELSE db_tests

\* get_test_cases' effect on _test_case_cache of process p.
cache_after_get(p) ==
    IF cache[p].hit THEN cache
    ELSE [cache EXCEPT ![p] = [hit |-> TRUE, tests |-> db_tests]]

\* ------------------------------------------------------ execution engine
\* A TestResult, reduced to what judging reads: its status and whether its
\* stderr is non-empty.
\* internal_error is the per-test status _execute_batch gives when the
\* runner's output is not JSON.
TestOutcomes ==
    { [status |-> "success", has_stderr |-> FALSE],
      [status |-> "wrong_answer", has_stderr |-> FALSE],
      [status |-> "runtime_error", has_stderr |-> TRUE],
      [status |-> "time_limit_exceeded", has_stderr |-> TRUE],
      [status |-> "internal_error", has_stderr |-> TRUE] }

RECURSIVE CountSuccess(_)
CountSuccess(trs) ==
    IF trs = <<>> THEN 0
    ELSE (IF trs[1].status = "success" THEN 1 ELSE 0) + CountSuccess(Tail(trs))

AnyStatus(trs, s) == \E k \in 1..Len(trs) : trs[k].status = s

\* _build_result with RUNTIME_ERROR tested before TIME_LIMIT_EXCEEDED.
build_result_error_first(trs) ==
    LET passed_count == CountSuccess(trs)
        status ==
            IF passed_count = Len(trs) THEN "success"
            ELSE IF AnyStatus(trs, "runtime_error") THEN "runtime_error"
            ELSE IF AnyStatus(trs, "time_limit_exceeded") THEN "time_limit_exceeded"
            ELSE "wrong_answer"
    IN  [status |-> status, test_results |-> trs, compilation_output |-> FALSE,
         passed_count |-> passed_count, total_count |-> Len(trs)]

\* DockerExecutor._build_result
build_result(trs) ==
    LET passed_count == CountSuccess(trs)
        status ==
            IF passed_count = Len(trs) THEN "success"
            ELSE IF AnyStatus(trs, "time_limit_exceeded") THEN "time_limit_exceeded"
            ELSE IF AnyStatus(trs, "runtime_error") THEN "runtime_error"
            ELSE "wrong_answer"
    IN  [status |-> status, test_results |-> trs, compilation_output |-> FALSE,
         passed_count |-> passed_count, total_count |-> Len(trs)]

\* DockerExecutor.execute, compilation failure
compile_error_result(n) ==
    [status |-> "compilation_error", test_results |-> <<>>,
     compilation_output |-> TRUE, passed_count |-> 0, total_count |-> n]

\* DockerExecutor._error_result
error_result(n) ==
    [status |-> "internal_error", test_results |-> <<>>,
     compilation_output |-> TRUE, passed_count |-> 0, total_count |-> n]

\* Sequences of test outcomes of length k.
TestResultLists(k) == [1..k -> TestOutcomes]

\* run_code on n inputs: every ExecutionResult the engine can return.  The
\* per-test list has one entry per input, or as many entries as the batch
\* runner printed (_parse_batch_results iterates the runner's list).
run_code(n) ==
    { build_result(trs) : trs \in UNION { TestResultLists(k) : k \in 0..n } }
        \cup {compile_error_result(n), error_result(n)}

\* The languages whose slug is a key of LANGUAGES in worker/config.py:
\* language 1 is python3, language 2 is a row whose slug the engine does not
\* know.
ConfiguredLanguages == {1}

\* run_code for a submission in the given language.
engine_results(language_id, n) ==
    IF language_id \in ConfiguredLanguages
    THEN run_code(n) \ {error_result(n)}
    ELSE {error_result(n)}

\* ----------------------------------------------------------- judge_queue
STATUS_MAP(s) ==
    CASE s = "success" -> "accepted"
      [] s = "internal_error" -> "runtime_error"
      [] s \in {"wrong_answer", "time_limit_exceeded", "memory_limit_exceeded",
                "runtime_error", "compilation_error"} -> s
      [] OTHER -> "runtime_error"

BaseKeys ==
    {"test_case_id", "order", "is_hidden", "status", "runtime_ms", "memory_kb",
     "exit_code"}

IOKeys == {"input", "expected_output", "actual_output"}

\* One entry of Submission.results: the keys it holds and the values of
\* test_case_id, is_hidden and status when it holds them.
Entry(keys, id, hidden, status) ==
    [keys |-> keys, test_case_id |-> id, is_hidden |-> hidden, status |-> status]

\* Detail with the `if not tc["is_hidden"]` test of line 187 removed.
Detail_unguarded(tc, tr) ==
    Entry(BaseKeys \cup IOKeys \cup (IF tr.has_stderr THEN {"stderr"} ELSE {}),
          tc.id, tc.is_hidden, tr.status)

\* _process_results, the loop body: the detail of one (test case, result) pair.
Detail(tc, tr) ==
    Entry(BaseKeys \cup
            (IF ~tc.is_hidden
             THEN IOKeys \cup (IF tr.has_stderr THEN {"stderr"} ELSE {})
             ELSE {}),
          tc.id, tc.is_hidden, tr.status)

ErrorEntry == Entry({"error"}, 0, FALSE, "")

CompilationEntry == Entry({"compilation_error"}, 0, FALSE, "")

\* Submission.results is nullable and NULL until judged.
NullResults == <<Entry({}, 0, FALSE, "null")>>

Min(a, b) == IF a < b THEN a ELSE b

\* zip(test_cases, exec_result.test_results)
ZipDetails(tests, trs) ==
    [k \in 1..Min(Len(tests), Len(trs)) |-> Detail(tests[k], trs[k])]

\* _process_results: the attribute values it assigns.
process_results(tests, r) ==
    [status |-> STATUS_MAP(r.status),
     passed |-> (r.status = "success"),
     passed_count |-> r.passed_count,
     total_count |-> r.total_count,
     results |-> (IF r.compilation_output THEN <<CompilationEntry>> ELSE <<>>)
                    \o ZipDetails(tests, r.test_results)]

\* _accept_submission: the attribute values it assigns.
accept_submission ==
    [status |-> "accepted", passed |-> TRUE, passed_count |-> 0,
     total_count |-> 0, results |-> <<>>]

\* _fail_submission: the attribute values it assigns.
fail_submission ==
    [status |-> "runtime_error", passed |-> FALSE, results |-> <<ErrorEntry>>]

\* JudgeWorker._process, except branch: the attribute values it assigns.
process_except ==
    [status |-> "runtime_error", results |-> <<ErrorEntry>>]

\* db.commit(): the UPDATE carries the assigned attributes whose value
\* differs from the one the session loaded (snap); the others keep the
\* committed value.
Flush(row, snap, new) ==
    [f \in DOMAIN row |->
        IF f \in DOMAIN new /\ new[f] # snap[f] THEN new[f] ELSE row[f]]

\* judge_submission lines 115-116: submission.status = RUNNING; db.commit()
mark_running(row) == [row EXCEPT !.status = "running"]

\* ------------------------------------------------------------- row locks
\* A worker holds the FOR UPDATE locks of its batch from _get_pending until
\* its session's first commit.
LockedBy(w) ==
    IF wk[w].pc = "claimed" THEN {wk[w].batch[k] : k \in 1..Len(wk[w].batch)}
    ELSE {}

LockedByOther(i, p) == \E w \in Workers \ {p} : i \in LockedBy(w)

\* ------------------------------------------------------------ conversions
\* Strings are sequences of characters.
DigitChars == <<"0", "1", "2", "3", "4", "5", "6", "7", "8", "9">>

IsDigit(c) == \E d \in 1..10 : DigitChars[d] = c

DigitValue(c) == (CHOOSE d \in 1..10 : DigitChars[d] = c) - 1

RECURSIVE Decimal(_)
Decimal(cs) ==
    IF cs = <<>> THEN 0
    ELSE 10 * Decimal(SubSeq(cs, 1, Len(cs) - 1)) + DigitValue(cs[Len(cs)])

\* str(n) of an int n >= 0
RECURSIVE str(_)
str(n) ==
    IF n < 10 THEN <<DigitChars[n + 1]>>
    ELSE str(n \div 10) \o <<DigitChars[(n % 10) + 1]>>

\* The return value None.
None == [none |-> TRUE, value |-> 0]

Some(n) == [none |-> FALSE, value |-> n]

\* int(s) of a string: an optional sign and one or more decimal digits, else
\* ValueError, here None.
int_or_none(cs) ==
    LET negative == cs # <<>> /\ cs[1] = "-"
        body == IF negative THEN Tail(cs) ELSE cs
    IN  IF body = <<>> \/ \E k \in 1..Len(body) : ~IsDigit(body[k]) THEN None
        ELSE Some(IF negative THEN 0 - Decimal(body) ELSE Decimal(body))

\* A session that holds no loaded submission.
NoRow ==
    [user_id |-> 0, problem_id |-> 0, language_id |-> 0, status |-> "none", passed |-> FALSE,
     passed_count |-> 0, total_count |-> 0, results |-> <<>>]

IdleTask == [pc |-> "none", snap |-> NoRow, tests |-> <<>>]

IdleWorker ==
    [pc |-> "idle", batch |-> <<>>, idx |-> 0, snap |-> NoRow, tests |-> <<>>]

NoReturn == [outcome |-> "none", id |-> 0, tests |-> <<>>]

\* A key sub:status:{id} that holds nothing.
NoPayload == [status |-> "none", stamp |-> 0]

IdlePublisher == [done |-> 0, id |-> 0, payload |-> NoPayload]

Viewers == 1..MaxViewers

\* code: the close code the server sent; read: sub:status:{id} was read;
\* subscribed, pubsub: the connection's pub/sub handle and its subscription;
\* gone: the client has disconnected.
NoConnection ==
    [pc |-> "none", id |-> 0, inbox |-> <<>>, sent |-> <<>>, code |-> 0,
     read |-> FALSE, subscribed |-> FALSE, pubsub |-> "none", gone |-> FALSE]

\* run_code has not returned yet.
NoResult ==
    [status |-> "none", test_results |-> <<>>, compilation_output |-> FALSE,
     passed_count |-> 0, total_count |-> 0]

NoExec == [proc |-> 0, id |-> 0, result |-> NoResult]

\* No dequeue_submission call made yet.
IdleDequeue == [state |-> "idle", timeout |-> 0, waited |-> FALSE, value |-> None]

\* No executor under test.
NoEngine == [pc |-> "none"]

\* A JudgeWorker whose run() has not been called: __init__ leaves
\* self.running False.
NoLoop == [pc |-> "none", running |-> FALSE, signals |-> 0, delivered |-> FALSE, judging |-> 0]

NoGet == [submission_id |-> 0, user_id |-> 0, outcome |-> "none", row |-> NoRow]

Init ==
    /\ rows = <<>>
    /\ db_tests = <<>>
    /\ cache = [p \in Procs |-> NoCache]
    /\ bg = [i \in 1..MaxSubs |-> IdleTask]
    /\ wk = [w \in Workers |-> IdleWorker]
    /\ judged = [i \in 1..MaxSubs |-> {}]
    /\ last_create = NoReturn
    /\ queue = <<>>
    /\ blocked = <<>>
    /\ dq = [w \in Workers |-> IdleDequeue]
    /\ pushed = <<>>
    /\ popped = <<>>
    /\ exec_result = NoExec
    /\ last_get = NoGet
    /\ snapshot = [i \in 1..MaxSubs |-> NoPayload]
    /\ channel_log = [i \in 1..MaxSubs |-> <<>>]
    /\ pub = [p \in Procs |-> IdlePublisher]
    /\ calls = 0
    /\ sockets = [v \in Viewers |-> NoConnection]
    /\ engine = NoEngine
    /\ loop = [w \in Workers |-> NoLoop]

\* ----------------------------------------------------------- environment
\* A test case is inserted for the problem (seed data, an admin tool): no
\* code path of the service invalidates any cache when this happens.
AddTestCase(h) ==
    /\ Len(db_tests) < MaxTests
    /\ db_tests' = Append(db_tests, TestCaseDict(Len(db_tests) + 1, h))
    /\ UNCHANGED <<rows, cache, bg, wk, judged, last_create, exec_result, outside_vars>>

\* invalidate_cache(problem_id) in process p
invalidate_cache(p) ==
    /\ cache[p].hit
    /\ cache' = [cache EXCEPT ![p] = NoCache]
    /\ UNCHANGED <<rows, db_tests, bg, wk, judged, last_create, exec_result, outside_vars>>

\* new_submission without total_count=len(test_cases): the column default 0.
new_submission_default_total(user_id, problem_id, language_id, test_cases) ==
    [user_id |-> user_id, problem_id |-> problem_id, language_id |-> language_id,
     status |-> "pending", passed |-> FALSE, passed_count |-> 0,
     total_count |-> 0, results |-> NullResults]

\* create_submission lines 50-57: the Submission it adds; passed, passed_count
\* and results take the column defaults.
new_submission(user_id, problem_id, language_id, test_cases) ==
    [user_id |-> user_id, problem_id |-> problem_id, language_id |-> language_id,
     status |-> "pending", passed |-> FALSE, passed_count |-> 0,
     total_count |-> Len(test_cases), results |-> NullResults]

\* create_submission without the language.is_active test of lines 43-46.
create_submission_any_language(user_id, problem_id, language_id) ==
    IF problem_id \notin Problems \/ language_id \notin Languages
    THEN /\ last_create' = [outcome |-> "not_found", id |-> 0, tests |-> <<>>]
         /\ UNCHANGED <<rows, db_tests, cache, bg, wk, judged, exec_result, outside_vars>>
    ELSE LET test_cases == get_test_cases(API)
             id == Len(rows) + 1
         IN  /\ Len(rows) < MaxSubs
             /\ cache' = cache_after_get(API)
             /\ rows' = Append(rows, new_submission(user_id, problem_id, language_id, test_cases))
             /\ last_create' = [outcome |-> "ok", id |-> id, tests |-> test_cases]
             /\ bg' = [bg EXCEPT ![id] = [IdleTask EXCEPT !.pc = "scheduled"]]
             /\ UNCHANGED <<db_tests, wk, judged, exec_result, outside_vars>>

\* ------------------------------------------------------------ submitCode
\* create_submission followed by backgroundTasks.add_task(judgeInBackground)
create_submission(user_id, problem_id, language_id) ==
    IF problem_id \notin Problems \/ language_id \notin Languages
    THEN /\ last_create' = [outcome |-> "not_found", id |-> 0, tests |-> <<>>]
         /\ UNCHANGED <<rows, db_tests, cache, bg, wk, judged, exec_result, outside_vars>>
    ELSE IF language_id \notin ActiveLanguages
    THEN /\ last_create' = [outcome |-> "bad_request", id |-> 0, tests |-> <<>>]
         /\ UNCHANGED <<rows, db_tests, cache, bg, wk, judged, exec_result, outside_vars>>
    ELSE LET test_cases == get_test_cases(API)
             id == Len(rows) + 1
         IN  /\ Len(rows) < MaxSubs
             /\ cache' = cache_after_get(API)
             /\ rows' = Append(rows, new_submission(user_id, problem_id, language_id, test_cases))
             /\ last_create' = [outcome |-> "ok", id |-> id, tests |-> test_cases]
             /\ bg' = [bg EXCEPT ![id] = [IdleTask EXCEPT !.pc = "scheduled"]]
             /\ UNCHANGED <<db_tests, wk, judged, exec_result, outside_vars>>

SubmitCode ==
    \E u \in UserIds, p \in ProblemIds, l \in LanguageIds : create_submission(u, p, l)

\* -------------------------------------------------------- judge_submission
\* judge_submission lines 115-119 in process p: mark RUNNING, commit, then the
\* reload of the expired row and get_test_cases.
JudgeStart(p, i) ==
    /\ ~LockedByOther(i, p)
    /\ rows' = [rows EXCEPT ![i] = mark_running(@)]
    /\ cache' = cache_after_get(p)
    /\ judged' = [judged EXCEPT ![i] = @ \cup {p}]

\* judge_submission lines 121-138: every way the rest of the call can end for
\* a session that loaded snap and tests, the committed row being row.
\* raised = "before": run_code or a query raised before any assignment;
\* raised = "after": db.refresh raised after the commit of the results.
JudgeOutcomes(row, snap, tests) ==
    IF tests = <<>>
    THEN {[row |-> Flush(row, snap, accept_submission), raised |-> "no",
           result |-> NoResult]}
    ELSE IF snap.language_id \notin Languages
    THEN {[row |-> Flush(row, snap, fail_submission), raised |-> "no",
           result |-> NoResult]}
    ELSE {[row |-> Flush(row, snap, process_results(tests, r)), raised |-> x,
           result |-> r] :
             r \in engine_results(snap.language_id, Len(tests)), x \in {"no", "after"}}
         \cup {[row |-> row, raised |-> "before", result |-> NoResult]}

\* The ExecutionResult judge_submission received, if run_code returned one.
returned_to(p, i, o) ==
    IF o.result = NoResult THEN exec_result
    ELSE [proc |-> p, id |-> i, result |-> o.result]

\* ------------------------------------------------------ judgeInBackground
BgStart(i) ==
    /\ bg[i].pc = "scheduled"
    /\ JudgeStart(API, i)
    /\ bg' = [bg EXCEPT ![i] = [pc |-> "executing", snap |-> mark_running(rows[i]),
                                tests |-> get_test_cases(API)]]
    /\ UNCHANGED <<db_tests, wk, last_create, exec_result, outside_vars>>

\* No except clause: an exception leaves the row as committed so far.
BgFinish(i) ==
    /\ bg[i].pc = "executing"
    /\ ~LockedByOther(i, API)
    /\ \E o \in JudgeOutcomes(rows[i], bg[i].snap, bg[i].tests) :
          /\ rows' = [rows EXCEPT ![i] = o.row]
          /\ bg' = [bg EXCEPT ![i] =
                       [IdleTask EXCEPT !.pc = IF o.raised = "no" THEN "done" ELSE "raised"]]
          /\ exec_result' = returned_to(API, i, o)
    /\ UNCHANGED <<db_tests, cache, wk, judged, last_create, outside_vars>>

\* ------------------------------------------------------------ JudgeWorker
Take(s, n) == SubSeq(s, 1, Min(n, Len(s)))

\* JudgeWorker._get_pending: the oldest PENDING rows no other session locks.
get_pending(w) ==
    Take(SelectSeq([i \in 1..Len(rows) |-> i],
                   LAMBDA i : rows[i].status = "pending" /\ ~LockedByOther(i, w)),
         BatchSize)

\* run_once line 88, with a non-empty result: the rows are locked and loaded.
run_once_query(w) ==
    /\ wk[w].pc = "idle"
    /\ get_pending(w) # <<>>
    /\ wk' = [wk EXCEPT ![w] = [IdleWorker EXCEPT !.pc = "claimed",
                                  !.batch = get_pending(w), !.idx = 1]]
    /\ UNCHANGED <<rows, db_tests, cache, bg, judged, last_create, exec_result, queue_vars,
                 last_get, pubsub_vars, engine>>

\* run_once called by itself (an empty result changes nothing).
Poll(w) == run_once_query(w) /\ UNCHANGED loop

\* run_once lines 89-90: the loop moves on, or run_once returns.
Advance(w) ==
    IF wk[w].idx < Len(wk[w].batch)
    THEN [wk[w] EXCEPT !.pc = "next", !.idx = @ + 1, !.snap = NoRow, !.tests = <<>>]
    ELSE IdleWorker

\* _process up to the reload in judge_submission, for the next row of the batch.
WStart(w) ==
    /\ wk[w].pc \in {"claimed", "next"}
    /\ LET i == wk[w].batch[wk[w].idx]
       IN  /\ JudgeStart(w, i)
           /\ wk' = [wk EXCEPT ![w] = [@ EXCEPT !.pc = "executing",
                                         !.snap = mark_running(rows[i]),
                                         !.tests = get_test_cases(w)]]
    /\ UNCHANGED <<db_tests, bg, last_create, exec_result, outside_vars>>

\* The rest of _process: judge_submission returns, or raises and the except
\* branch commits RUNTIME_ERROR.
WFinish(w) ==
    /\ wk[w].pc = "executing"
    /\ LET i == wk[w].batch[wk[w].idx]
       IN  /\ ~LockedByOther(i, w)
           /\ \E o \in JudgeOutcomes(rows[i], wk[w].snap, wk[w].tests) :
                 /\ exec_result' = returned_to(w, i, o)
                 /\ \/ /\ o.raised = "no"
                       /\ rows' = [rows EXCEPT ![i] = o.row]
                       /\ wk' = [wk EXCEPT ![w] = Advance(w)]
                    \/ /\ o.raised = "before"
                       /\ rows' = [rows EXCEPT ![i] = Flush(o.row, wk[w].snap, process_except)]
                       /\ wk' = [wk EXCEPT ![w] = Advance(w)]
                    \/ /\ o.raised = "after"
                       /\ rows' = [rows EXCEPT ![i] = o.row]
                       /\ wk' = [wk EXCEPT ![w] = [@ EXCEPT !.pc = "handler"]]
    /\ UNCHANGED <<db_tests, cache, bg, judged, last_create, outside_vars>>

\* The except branch after db.refresh raised: the row was committed and
\* expired, the handler reloads it and commits RUNTIME_ERROR over it.
WHandler(w) ==
    /\ wk[w].pc = "handler"
    /\ LET i == wk[w].batch[wk[w].idx]
       IN  /\ ~LockedByOther(i, w)
           /\ rows' = [rows EXCEPT ![i] = Flush(@, @, process_except)]
    /\ wk' = [wk EXCEPT ![w] = Advance(w)]
    /\ UNCHANGED <<db_tests, cache, bg, judged, last_create, exec_result, outside_vars>>

\* The worker process dies while run_code is running (kill -9, host loss);
\* at least one worker survives.
WCrash(w) ==
    /\ wk[w].pc = "executing"
    /\ \E v \in Workers \ {w} : wk[v].pc # "dead"
    /\ wk' = [wk EXCEPT ![w] = [@ EXCEPT !.pc = "dead"]]
    /\ UNCHANGED <<rows, db_tests, cache, bg, judged, last_create, exec_result, outside_vars>>

\* The deployment the routes describe: the API process with its background
\* tasks, and one JudgeWorker polling the same table.
ApiWorkers == {1}

Next ==
    \/ \E h \in BOOLEAN : AddTestCase(h)
    \/ create_submission(1, 1, 1)
    \/ \E i \in 1..MaxSubs : BgStart(i) \/ BgFinish(i)
    \/ \E w \in ApiWorkers : Poll(w) \/ WStart(w) \/ WFinish(w) \/ WHandler(w)

Spec == Init /\ [][Next]_vars

\* Every scheduled background task runs (the route's BackgroundTasks).
BgFairness == \A i \in 1..MaxSubs : WF_vars(BgStart(i)) /\ WF_vars(BgFinish(i))

\* JudgeWorker.run: a live worker keeps calling run_once.
WorkerFairness(ws) ==
    \A w \in ws :
        WF_vars(Poll(w)) /\ WF_vars(WStart(w)) /\ WF_vars(WFinish(w)) /\ WF_vars(WHandler(w))

FairSpec == Spec /\ BgFairness /\ WorkerFairness(ApiWorkers)

\* Horizontal scaling: several JudgeWorkers on a table seeded with PENDING
\* rows (tests/test_judge_worker.py seeds the row the same way), no API
\* process.  Workers may die while run_code runs.
SeededTests ==
    UNION { [1..k -> {TestCaseDict(j, h) : j \in 1..k, h \in BOOLEAN}] : k \in 0..MaxTests }

InitWorkers ==
    /\ db_tests \in {t \in SeededTests : \A k \in 1..Len(t) : t[k].id = k}
    /\ rows = [i \in 1..MaxSubs |-> new_submission(1, 1, 1, db_tests)]
    /\ cache = [p \in Procs |-> NoCache]
    /\ bg = [i \in 1..MaxSubs |-> IdleTask]
    /\ wk = [w \in Workers |-> IdleWorker]
    /\ judged = [i \in 1..MaxSubs |-> {}]
    /\ last_create = NoReturn
    /\ queue = <<>>
    /\ blocked = <<>>
    /\ dq = [w \in Workers |-> IdleDequeue]
    /\ pushed = <<>>
    /\ popped = <<>>
    /\ exec_result = NoExec
    /\ last_get = NoGet
    /\ snapshot = [i \in 1..MaxSubs |-> NoPayload]
    /\ channel_log = [i \in 1..MaxSubs |-> <<>>]
    /\ pub = [p \in Procs |-> IdlePublisher]
    /\ calls = 0
    /\ sockets = [v \in Viewers |-> NoConnection]
    /\ engine = NoEngine
    /\ loop = [w \in Workers |-> NoLoop]

NextWorkers ==
    \/ \E h \in BOOLEAN : AddTestCase(h)
    \/ \E w \in Workers : Poll(w) \/ WStart(w) \/ WFinish(w) \/ WHandler(w) \/ WCrash(w)

WorkerSpec == InitWorkers /\ [][NextWorkers]_vars /\ WorkerFairness(Workers)

\* The workers of WorkerSpec with the test-case caches being invalidated: a
\* process can only call invalidate_cache on its own _test_case_cache.
NextCache ==
    \/ NextWorkers
    \/ \E p \in Workers : invalidate_cache(p)

CacheSpec == InitWorkers /\ [][NextCache]_vars /\ WorkerFairness(Workers)

\* PENDING rows whose language the engine does not know (language 2) or
\* whose Language row is gone (language 3).
UnknownLanguages == {2, 3}

InitLanguages ==
    /\ db_tests \in {t \in SeededTests : \A k \in 1..Len(t) : t[k].id = k}
    /\ rows \in {[i \in 1..MaxSubs |-> new_submission(1, 1, l[i], db_tests)] :
                   l \in [1..MaxSubs -> UnknownLanguages]}
    /\ cache = [p \in Procs |-> NoCache]
    /\ bg = [i \in 1..MaxSubs |-> IdleTask]
    /\ wk = [w \in Workers |-> IdleWorker]
    /\ judged = [i \in 1..MaxSubs |-> {}]
    /\ last_create = NoReturn
    /\ queue = <<>>
    /\ blocked = <<>>
    /\ dq = [w \in Workers |-> IdleDequeue]
    /\ pushed = <<>>
    /\ popped = <<>>
    /\ exec_result = NoExec
    /\ last_get = NoGet
    /\ snapshot = [i \in 1..MaxSubs |-> NoPayload]
    /\ channel_log = [i \in 1..MaxSubs |-> <<>>]
    /\ pub = [p \in Procs |-> IdlePublisher]
    /\ calls = 0
    /\ sockets = [v \in Viewers |-> NoConnection]
    /\ engine = NoEngine
    /\ loop = [w \in Workers |-> NoLoop]

LanguageSpec == InitLanguages /\ [][NextWorkers]_vars /\ WorkerFairness(Workers)

\* ------------------------------------------------------- JudgeWorker.run
\* _shutdown as with the handler never registered for the signal.
shutdown_ignored(w) == loop[w]

\* _shutdown: the handler of SIGTERM and SIGINT, run between two steps of
\* the main thread.
shutdown(w) == [loop[w] EXCEPT !.running = FALSE]

\* The submission worker w is judging, or 0.
Judging(w) ==
    IF wk[w].pc \in {"executing", "handler"} THEN wk[w].batch[wk[w].idx] ELSE 0

\* SIGINT or SIGTERM reaches the process of worker w while run() is in
\* progress.  Kept for the record: whether self.running was True when a
\* signal arrived, and the submission being judged at the first such signal.
Signal(w) ==
    /\ loop[w].pc \notin {"none", "returned"}
    /\ loop[w].signals < MaxSignals
    /\ loop' = [loop EXCEPT ![w] =
                  [shutdown(w) EXCEPT !.signals = @ + 1,
                                      !.delivered = @ \/ loop[w].running,
                                      !.judging = IF loop[w].running /\ ~loop[w].delivered
                                                  THEN Judging(w) ELSE @]]
    /\ UNCHANGED <<rows, db_tests, cache, bg, wk, judged, last_create, exec_result, queue_vars,
                 last_get, pubsub_vars, engine>>

\* A step of run() that touches neither the database nor the session.
LoopStep(w, next) ==
    /\ loop' = [loop EXCEPT ![w] = next]
    /\ UNCHANGED <<rows, db_tests, cache, bg, wk, judged, last_create, exec_result, queue_vars,
                 last_get, pubsub_vars, engine>>

\* run lines 102-104: self.running = True.
RunBegin(w) ==
    /\ loop[w].pc = "starting"
    /\ LoopStep(w, [loop[w] EXCEPT !.pc = "test", !.running = TRUE])

\* run line 106: while self.running; a false test ends run().
LoopTest(w) ==
    /\ loop[w].pc = "test"
    /\ LoopStep(w, [loop[w] EXCEPT !.pc = IF loop[w].running THEN "polling" ELSE "returned"])

\* run line 107, run_once finding rows to judge.
RunOncePoll(w) ==
    /\ loop[w].pc = "polling"
    /\ run_once_query(w)
    /\ loop' = [loop EXCEPT ![w] = [@ EXCEPT !.pc = "processing"]]

\* run line 107, run_once finding nothing: back off.
RunOnceEmpty(w) ==
    /\ loop[w].pc = "polling"
    /\ get_pending(w) = <<>>
    /\ LoopStep(w, [loop[w] EXCEPT !.pc = "sleeping"])

\* run_once returns after the last row of its batch.
RunOnceReturn(w) ==
    /\ loop[w].pc = "processing"
    /\ wk[w].pc = "idle"
    /\ LoopStep(w, [loop[w] EXCEPT !.pc = "sleeping"])

\* time.sleep returns (after a signal it sleeps the rest of its time).
Slept(w) ==
    /\ loop[w].pc = "sleeping"
    /\ LoopStep(w, [loop[w] EXCEPT !.pc = "test"])

\* One JudgeWorker started by main() on a table seeded with PENDING rows.
LoopWorkers == {1}

InitShutdown ==
    /\ db_tests \in {t \in SeededTests : \A k \in 1..Len(t) : t[k].id = k}
    /\ rows = [i \in 1..MaxSubs |-> new_submission(1, 1, 1, db_tests)]
    /\ cache = [p \in Procs |-> NoCache]
    /\ bg = [i \in 1..MaxSubs |-> IdleTask]
    /\ wk = [w \in Workers |-> IdleWorker]
    /\ judged = [i \in 1..MaxSubs |-> {}]
    /\ last_create = NoReturn
    /\ queue = <<>>
    /\ blocked = <<>>
    /\ dq = [w \in Workers |-> IdleDequeue]
    /\ pushed = <<>>
    /\ popped = <<>>
    /\ exec_result = NoExec
    /\ last_get = NoGet
    /\ snapshot = [i \in 1..MaxSubs |-> NoPayload]
    /\ channel_log = [i \in 1..MaxSubs |-> <<>>]
    /\ pub = [p \in Procs |-> IdlePublisher]
    /\ calls = 0
    /\ sockets = [v \in Viewers |-> NoConnection]
    /\ engine = NoEngine
    /\ loop = [w \in Workers |-> IF w \in LoopWorkers
                                  THEN [NoLoop EXCEPT !.pc = "starting"] ELSE NoLoop]

NextShutdown ==
    \E w \in LoopWorkers :
        \/ RunBegin(w) \/ LoopTest(w) \/ RunOncePoll(w) \/ RunOnceEmpty(w)
        \/ RunOnceReturn(w) \/ Slept(w)
        \/ WStart(w) \/ WFinish(w) \/ WHandler(w)
        \/ Signal(w)

\* The main thread of a live worker keeps running; signals may or may not come.
LoopFairness ==
    \A w \in LoopWorkers :
        /\ WF_vars(RunBegin(w)) /\ WF_vars(LoopTest(w)) /\ WF_vars(RunOncePoll(w))
        /\ WF_vars(RunOnceEmpty(w)) /\ WF_vars(RunOnceReturn(w)) /\ WF_vars(Slept(w))
        /\ WF_vars(WStart(w)) /\ WF_vars(WFinish(w)) /\ WF_vars(WHandler(w))

ShutdownSpec == InitShutdown /\ [][NextShutdown]_vars /\ LoopFairness

\* The submission service alone: every input of create_submission, test
\* cases being added and the API process's cache being dropped.
NextCreate ==
    \/ \E h \in BOOLEAN : AddTestCase(h)
    \/ invalidate_cache(API)
    \/ SubmitCode
    \/ \E i \in 1..MaxSubs : BgStart(i) \/ BgFinish(i)

CreateSpec == Init /\ [][NextCreate]_vars

\* ---------------------------------------------------------- get_submission
\* get_submission with the owner filter of line 72 removed.
get_submission_any_owner(submission_id, user_id) ==
    /\ last_get' =
          IF submission_id \in 1..Len(rows)
          THEN [submission_id |-> submission_id, user_id |-> user_id,
                outcome |-> "ok", row |-> rows[submission_id]]
          ELSE [submission_id |-> submission_id, user_id |-> user_id,
                outcome |-> "not_found", row |-> NoRow]
    /\ UNCHANGED <<rows, db_tests, cache, bg, wk, judged, last_create, exec_result, queue_vars,
                 pubsub_vars, engine, loop>>

\* get_submission: the row with that id and that owner, or NOT_FOUND.
get_submission(submission_id, user_id) ==
    /\ last_get' =
          IF submission_id \in 1..Len(rows) /\ rows[submission_id].user_id = user_id
          THEN [submission_id |-> submission_id, user_id |-> user_id,
                outcome |-> "ok", row |-> rows[submission_id]]
          ELSE [submission_id |-> submission_id, user_id |-> user_id,
                outcome |-> "not_found", row |-> NoRow]
    /\ UNCHANGED <<rows, db_tests, cache, bg, wk, judged, last_create, exec_result, queue_vars,
                 pubsub_vars, engine, loop>>

\* GET /submissions/{id}: any id, any authenticated user.
GetSubmission ==
    \E i \in 1..(MaxSubs + 1), u \in UserIds : get_submission(i, u)

\* Reads of submissions while they are created and judged.
NextRead ==
    \/ SubmitCode
    \/ \E i \in 1..MaxSubs : BgStart(i) \/ BgFinish(i)
    \/ GetSubmission

ReadSpec == Init /\ [][NextRead]_vars

\* ------------------------------------------------------------ cache/redis
\* The job queue judge:queue.  No service, route or worker of the repository
\* calls enqueue_submission or dequeue_submission.
\* RPUSH in place of the LPUSH of line 117.
rpush(list, entry) == Append(list, entry)

\* LPUSH: the entry becomes the leftmost element.
lpush(list, entry) == <<entry>> \o list

\* The submission ids callers enqueue, and the timeouts they dequeue with
\* (0 blocks without limit).
QueueIds == {1, 2, 10}

Timeouts == {0, 5}

\* enqueue_submission: LPUSH judge:queue str(submission_id).  Redis serves
\* the clients blocked on the list, longest-waiting first, before it runs
\* another command: the waiting BRPOP takes the rightmost element.
enqueue_submission(submission_id) ==
    /\ Len(pushed) < MaxEnqueues
    /\ pushed' = Append(pushed, submission_id)
    /\ LET list == lpush(queue, str(submission_id))
           entry == list[Len(list)]
       IN  IF blocked = <<>>
           THEN /\ queue' = list
                /\ UNCHANGED <<blocked, dq, popped>>
           ELSE /\ queue' = SubSeq(list, 1, Len(list) - 1)
                /\ blocked' = Tail(blocked)
                /\ dq' = [dq EXCEPT ![Head(blocked)] =
                             [@ EXCEPT !.state = "returned", !.value = int_or_none(entry)]]
                /\ popped' = Append(popped, int_or_none(entry).value)
    /\ UNCHANGED <<rows, db_tests, cache, bg, wk, judged, last_create, exec_result, last_get,
                 pubsub_vars, engine, loop>>

\* dequeue_submission(timeout) called by worker w: BRPOP takes the rightmost
\* element and the call returns int(result[1]), or the call waits.
dequeue_submission(w, timeout) ==
    /\ dq[w].state # "blocked"
    /\ IF queue # <<>>
       THEN /\ queue' = SubSeq(queue, 1, Len(queue) - 1)
            /\ dq' = [dq EXCEPT ![w] =
                         [state |-> "returned", timeout |-> timeout, waited |-> FALSE,
                          value |-> int_or_none(queue[Len(queue)])]]
            /\ popped' = Append(popped, int_or_none(queue[Len(queue)]).value)
            /\ UNCHANGED blocked
       ELSE /\ blocked' = Append(blocked, w)
            /\ dq' = [dq EXCEPT ![w] =
                         [state |-> "blocked", timeout |-> timeout, waited |-> TRUE,
                          value |-> None]]
            /\ UNCHANGED <<queue, popped>>
    /\ UNCHANGED <<rows, db_tests, cache, bg, wk, judged, last_create, exec_result, pushed,
                 last_get, pubsub_vars, engine, loop>>

\* The timeout of a waiting BRPOP runs out: result is None, lines 129-130.
brpop_timeout(w) ==
    /\ dq[w].state = "blocked"
    /\ dq[w].timeout > 0
    /\ blocked' = SelectSeq(blocked, LAMBDA x : x # w)
    /\ dq' = [dq EXCEPT ![w] = [@ EXCEPT !.state = "returned", !.value = None]]
    /\ UNCHANGED <<rows, db_tests, cache, bg, wk, judged, last_create, exec_result, queue,
                 pushed, popped, last_get, pubsub_vars, engine, loop>>

\* Callers of the queue: a producer and the workers.
NextQueue ==
    \/ \E i \in QueueIds : enqueue_submission(i)
    \/ \E w \in Workers, t \in Timeouts : dequeue_submission(w, t)
    \/ \E w \in Workers : brpop_timeout(w)

QueueSpec == Init /\ [][NextQueue]_vars

\* publish_status_sync with its two Redis commands in the other order.
publish_steps_reversed == <<"publish", "set">>

\* publish_status_sync lines 108-109: the Redis commands it issues, in order.
publish_steps == <<"set", "publish">>

\* The status a published payload carries.
PayloadStatuses == {"running"} \cup Terminal

\* One Redis command of a publish of payload for submission i: SET of
\* sub:status:{i}, or PUBLISH on submission:{i}, which Redis delivers to the
\* connections subscribed at that instant.
RedisCommand(cmd, i, payload) ==
    IF cmd = "set"
    THEN /\ snapshot' = [snapshot EXCEPT ![i] = payload]
         /\ UNCHANGED <<channel_log, sockets>>
    ELSE /\ channel_log' = [channel_log EXCEPT ![i] = Append(@, payload)]
         /\ sockets' = [v \in Viewers |->
                            IF sockets[v].subscribed /\ sockets[v].id = i
                            THEN [sockets[v] EXCEPT !.inbox = Append(@, payload)]
                            ELSE sockets[v]]
         /\ UNCHANGED snapshot

\* publish_status_sync(i, payload) in process p, up to its first command.
\* The stamp numbers the calls in the order they begin.
PublishBegin(p, i, s) ==
    /\ pub[p].done = 0
    /\ calls < MaxPublishes
    /\ LET payload == [status |-> s, stamp |-> calls + 1]
       IN  /\ RedisCommand(publish_steps[1], i, payload)
           /\ pub' = [pub EXCEPT ![p] = [done |-> 1, id |-> i, payload |-> payload]]
    /\ calls' = calls + 1
    /\ UNCHANGED <<rows, db_tests, cache, bg, wk, judged, last_create, exec_result, queue_vars, last_get, engine, loop>>

\* The second command of the call, and its return.
PublishEnd(p) ==
    /\ pub[p].done = 1
    /\ RedisCommand(publish_steps[2], pub[p].id, pub[p].payload)
    /\ pub' = [pub EXCEPT ![p] = IdlePublisher]
    /\ UNCHANGED <<rows, db_tests, cache, bg, wk, judged, last_create, exec_result, queue_vars, last_get, calls, engine, loop>>

\* The 600 s TTL of sub:status:{i} runs out.
Expire(i) ==
    /\ snapshot[i] # NoPayload
    /\ snapshot' = [snapshot EXCEPT ![i] = NoPayload]
    /\ UNCHANGED <<rows, db_tests, cache, bg, wk, judged, last_create, exec_result, queue_vars, last_get, channel_log, pub, calls, sockets, engine, loop>>

\* ---------------------------------------------------------- submission_ws
TERMINAL_STATUSES ==
    {"accepted", "wrong_answer", "runtime_error", "time_limit_exceeded",
     "memory_limit_exceeded", "compilation_error"}

\* ws.py line 70, for a payload whose only status word is its status field.
is_terminal(data) == data.status \in TERMINAL_STATUSES

\* submission_ws lines 51-60: accept, create the pub/sub handle, read
\* sub:status:{i}, send it if set.
WsConnect(v, i) ==
    /\ sockets[v].pc = "none"
    /\ sockets' = [sockets EXCEPT ![v] =
                      [NoConnection EXCEPT
                          !.pc = "accepted", !.id = i, !.read = TRUE, !.pubsub = "open",
                          !.sent = IF snapshot[i] # NoPayload THEN <<snapshot[i]>> ELSE <<>>]]
    /\ UNCHANGED <<rows, db_tests, cache, bg, wk, judged, last_create, exec_result, queue_vars, last_get, snapshot, channel_log, pub, calls, engine, loop>>

\* submission_ws line 62: pubsub.subscribe(channel)
WsSubscribe(v) ==
    /\ sockets[v].pc = "accepted"
    /\ sockets' = [sockets EXCEPT ![v] = [@ EXCEPT !.pc = "listening", !.subscribed = TRUE]]
    /\ UNCHANGED <<rows, db_tests, cache, bg, wk, judged, last_create, exec_result, queue_vars, last_get, snapshot, channel_log, pub, calls, engine, loop>>

\* submission_ws lines 74-76: pubsub.unsubscribe(channel); pubsub.close()
ws_finally(conn) == [conn EXCEPT !.subscribed = FALSE, !.pubsub = "closed"]

\* submission_ws lines 64-76: forward the next channel message; on a terminal
\* one leave the loop, unsubscribe and return, which closes the connection.
\* send_text to a client that has disconnected raises WebSocketDisconnect,
\* which the handler swallows on its way through the finally block.
WsForward(v) ==
    /\ sockets[v].pc = "listening"
    /\ sockets[v].inbox # <<>>
    /\ LET data == Head(sockets[v].inbox)
       IN  sockets' = [sockets EXCEPT ![v] =
                         IF sockets[v].gone
                         THEN ws_finally([@ EXCEPT !.pc = "closed", !.inbox = <<>>])
                         ELSE IF is_terminal(data)
                         THEN ws_finally([@ EXCEPT !.pc = "closed", !.inbox = <<>>,
                                                   !.sent = Append(@, data)])
                         ELSE [@ EXCEPT !.inbox = Tail(@), !.sent = Append(@, data)]]
    /\ UNCHANGED <<rows, db_tests, cache, bg, wk, judged, last_create, exec_result, queue_vars, last_get, snapshot, channel_log, pub, calls, engine, loop>>

\* ---------------------------------------------------- _authenticate_token
\* A token as _authenticate_token sees it: whether jwt.decode accepts it
\* (signature, expiry, well-formed claims), whether the payload has "sub",
\* and the characters of "sub" (jwt.decode rejects a "sub" that is no string).
Token(decodable, has_sub, sub) ==
    [decodable |-> decodable, has_sub |-> has_sub, sub |-> sub]

Subjects ==
    { <<"1">>, <<"2">>, <<"1", "2">>, <<"-", "1">>, <<>>, <<"-">>, <<"a">>,
      <<"1", "a">>, <<"1", ".", "0">> }

Tokens ==
    {Token(FALSE, FALSE, <<>>), Token(TRUE, FALSE, <<>>)}
        \cup {Token(TRUE, TRUE, t) : t \in Subjects}

authenticate_token(token) ==
    IF ~token.decodable THEN None
    ELSE IF ~token.has_sub THEN None
    ELSE int_or_none(token.sub)

\* submission_ws without the test of lines 47-49.
submission_ws_no_auth(v, i, token) == WsConnect(v, i)

\* submission_ws lines 46-60: a token that does not authenticate is answered
\* with close(code=4001) and the handler returns; else WsConnect.
submission_ws(v, i, token) ==
    IF authenticate_token(token) = None
    THEN /\ sockets[v].pc = "none"
         /\ sockets' = [sockets EXCEPT ![v] =
                           [NoConnection EXCEPT !.pc = "rejected", !.id = i, !.code = 4001]]
         /\ UNCHANGED <<rows, db_tests, cache, bg, wk, judged, last_create, exec_result, queue_vars, last_get, snapshot, channel_log, pub, calls, engine, loop>>
    ELSE WsConnect(v, i)

\* The client of an accepted connection goes away.  The handler never calls
\* websocket.receive(), so nothing in it runs when this happens.
WsDisconnect(v) ==
    /\ sockets[v].pc \in {"accepted", "listening"}
    /\ ~sockets[v].gone
    /\ sockets' = [sockets EXCEPT ![v].gone = TRUE]
    /\ UNCHANGED <<rows, db_tests, cache, bg, wk, judged, last_create, exec_result, queue_vars, last_get, snapshot, channel_log, pub, calls, engine, loop>>

\* pubsub.listen() raises (the Redis connection fails): the exception leaves
\* through the finally block.  With redis_up the commands of the finally
\* block succeed; without it pubsub.unsubscribe raises in its turn, so
\* pubsub.close() is not reached, and the server end of the subscription is
\* gone with the connection.
WsListenError(v, redis_up) ==
    /\ sockets[v].pc = "listening"
    /\ sockets' = [sockets EXCEPT ![v] =
                      IF redis_up THEN ws_finally([@ EXCEPT !.pc = "failed", !.inbox = <<>>])
                      ELSE [@ EXCEPT !.pc = "failed", !.inbox = <<>>, !.subscribed = FALSE]]
    /\ UNCHANGED <<rows, db_tests, cache, bg, wk, judged, last_create, exec_result, queue_vars, last_get, snapshot, channel_log, pub, calls, engine, loop>>

\* The processes that judge in the deployment of Spec.
Publishers == {API} \cup ApiWorkers

\* Any process publishing any payload for any submission, with viewers.
NextPublish ==
    \/ \E p \in Publishers, i \in 1..MaxSubs, s \in PayloadStatuses : PublishBegin(p, i, s)
    \/ \E p \in Publishers : PublishEnd(p)
    \/ \E i \in 1..MaxSubs : Expire(i)
    \/ \E v \in Viewers : (\E i \in 1..MaxSubs : WsConnect(v, i)) \/ WsSubscribe(v) \/ WsForward(v)

PublishSpec == Init /\ [][NextPublish]_vars

\* What ws.py's docstring says the judge of submission i publishes: RUNNING,
\* then the final verdict, one call after the other (here from worker 1).
JudgePublish(i) ==
    \/ /\ channel_log[i] = <<>>
       /\ PublishBegin(1, i, "running")
    \/ /\ Len(channel_log[i]) = 1
       /\ \E s \in Terminal : PublishBegin(1, i, s)

\* Viewers of submissions whose judge publishes as above.
NextViewer ==
    \/ \E i \in 1..MaxSubs : JudgePublish(i)
    \/ PublishEnd(1)
    \/ \E i \in 1..MaxSubs : Expire(i)
    \/ \E v \in Viewers : (\E i \in 1..MaxSubs : WsConnect(v, i)) \/ WsSubscribe(v) \/ WsForward(v)

\* The judge finishes its calls and the server's coroutines keep running.
ViewerFairness ==
    /\ WF_vars(PublishEnd(1))
    /\ \A i \in 1..MaxSubs : WF_vars(JudgePublish(i))
    /\ \A v \in Viewers : WF_vars(WsSubscribe(v)) /\ WF_vars(WsForward(v))

ViewerSpec == Init /\ [][NextViewer]_vars /\ ViewerFairness

\* The gateway as a whole: connections with any token, clients that leave,
\* Redis failures, and a judge that publishes RUNNING and then the verdict.
NextGateway ==
    \/ \E i \in 1..MaxSubs : JudgePublish(i)
    \/ PublishEnd(1)
    \/ \E i \in 1..MaxSubs : Expire(i)
    \/ \E v \in Viewers, i \in 1..MaxSubs, token \in Tokens : submission_ws(v, i, token)
    \/ \E v \in Viewers : WsSubscribe(v) \/ WsForward(v) \/ WsDisconnect(v)
    \/ \E v \in Viewers, redis_up \in BOOLEAN : WsListenError(v, redis_up)

GatewaySpec == Init /\ [][NextGateway]_vars /\ ViewerFairness

\* --------------------------------------------------------- DockerExecutor
\* Times are whole seconds.  ResourceLimits: the defaults of worker/config.py
\* and a DockerExecutor(limits) with a total budget of three seconds.
DEFAULT_LIMITS == [timeout_per_test |-> 2, max_total_timeout |-> 60]

Limits == {DEFAULT_LIMITS, [timeout_per_test |-> 2, max_total_timeout |-> 3]}

\* _calculate_total_timeout
calculate_total_timeout(limits, test_count) ==
    Min(limits.max_total_timeout, test_count * limits.timeout_per_test + 10)

\* The longest of the outputs enumerated character by character.
MaxOutputLen == 2

\* ---------------------------------------------------------- _outputs_match
\* An output is the sequence of its characters.  The whitespace of the
\* modelled outputs: on these characters str.strip and the JSON scanner agree.
Whitespace == {" ", "\n"}

Drop(cs, n) == SubSeq(cs, n + 1, Len(cs))

RECURSIVE lstrip(_)
lstrip(cs) ==
    IF cs # <<>> /\ Head(cs) \in Whitespace THEN lstrip(Tail(cs)) ELSE cs

RECURSIVE rstrip(_)
rstrip(cs) ==
    IF cs # <<>> /\ cs[Len(cs)] \in Whitespace THEN rstrip(SubSeq(cs, 1, Len(cs) - 1)) ELSE cs

\* str.strip()
strip(cs) == rstrip(lstrip(cs))

\* A parsed JSON document is the sequence of its tokens in document order:
\* "[" and "]" around the elements of a list, and one token per scalar.  A
\* number is m * 10^e with m not a multiple of 10 (0 is m = 0, e = 0): the
\* value both int and float comparison go by, for exponents within the
\* range of a double.
Number(m, e) == [kind |-> "number", m |-> m, e |-> e]

Literal(kind) == [kind |-> kind, m |-> 0, e |-> 0]

RECURSIVE Normalised(_, _)
Normalised(m, e) ==
    IF m = 0 THEN Number(0, 0)
    ELSE IF m % 10 = 0 THEN Normalised(m \div 10, e + 1)
    ELSE Number(m, e)

NoParse == [ok |-> FALSE, toks |-> <<>>, rest |-> <<>>]

Parsed(toks, rest) == [ok |-> TRUE, toks |-> toks, rest |-> rest]

\* The length of the run of digits cs begins with.
RECURSIVE DigitRun(_)
DigitRun(cs) ==
    IF cs # <<>> /\ IsDigit(Head(cs)) THEN 1 + DigitRun(Tail(cs)) ELSE 0

\* json.scanner NUMBER_RE, (-?(?:0|[1-9]\d*))(\.\d+)?([eE][-+]?\d+)?, one
\* group at a time: the number of characters the group matches at the start
\* of cs, 0 when it does not match.
IntegerLength(cs) ==
    LET a == IF cs # <<>> /\ Head(cs) = "-" THEN Tail(cs) ELSE cs
    IN  IF a = <<>> \/ ~IsDigit(Head(a)) THEN 0
        ELSE IF Head(a) = "0" THEN 1 + Len(cs) - Len(a)
        ELSE DigitRun(a) + Len(cs) - Len(a)

FractionLength(cs) ==
    IF Len(cs) >= 2 /\ cs[1] = "." /\ IsDigit(cs[2]) THEN 1 + DigitRun(Tail(cs)) ELSE 0

ExponentLength(cs) ==
    IF cs = <<>> \/ Head(cs) \notin {"e", "E"} THEN 0
    ELSE IF Len(cs) >= 2 /\ cs[2] \in {"-", "+"}
    THEN (IF DigitRun(Drop(cs, 2)) = 0 THEN 0 ELSE 2 + DigitRun(Drop(cs, 2)))
    ELSE IF DigitRun(Tail(cs)) = 0 THEN 0 ELSE 1 + DigitRun(Tail(cs))

\* The exponent the third group stands for.
ExponentValue(exp) ==
    IF exp = <<>> THEN 0
    ELSE IF exp[2] = "-" THEN 0 - Decimal(Drop(exp, 2))
    ELSE IF exp[2] = "+" THEN Decimal(Drop(exp, 2))
    ELSE Decimal(Tail(exp))

\* int(integer), or float(integer + frac + exp) when one of them is there.
NumberValue(integer, frac, exp) ==
    LET negative == Head(integer) = "-"
        digits == (IF negative THEN Tail(integer) ELSE integer)
                      \o (IF frac = <<>> THEN <<>> ELSE Tail(frac))
    IN  Normalised(IF negative THEN 0 - Decimal(digits) ELSE Decimal(digits),
                   ExponentValue(exp) - (IF frac = <<>> THEN 0 ELSE Len(frac) - 1))

\* NUMBER_RE matched at the start of cs, and the value of the matched text.
match_number(cs) ==
    LET i == IntegerLength(cs)
        f == i + FractionLength(Drop(cs, i))
        e == f + ExponentLength(Drop(cs, f))
    IN  IF i = 0 THEN NoParse
        ELSE Parsed(<<NumberValue(SubSeq(cs, 1, i), SubSeq(cs, i + 1, f), SubSeq(cs, f + 1, e))>>,
                    Drop(cs, e))

StartsWith(cs, word) == Len(cs) >= Len(word) /\ SubSeq(cs, 1, Len(word)) = word

\* json.scanner py_make_scanner._scan_once and json.decoder JSONArray, for
\* documents without strings and objects.
RECURSIVE scan_once(_)
RECURSIVE JSONArray(_, _)
scan_once(cs) ==
    IF cs = <<>> THEN NoParse
    ELSE IF Head(cs) = "[" THEN
        LET a == lstrip(Tail(cs))
        IN  IF a # <<>> /\ Head(a) = "]" THEN Parsed(<<Literal("["), Literal("]")>>, Tail(a))
            ELSE JSONArray(a, <<Literal("[")>>)
    ELSE IF StartsWith(cs, <<"n", "u", "l", "l">>) THEN Parsed(<<Literal("null")>>, Drop(cs, 4))
    ELSE IF StartsWith(cs, <<"t", "r", "u", "e">>) THEN Parsed(<<Literal("true")>>, Drop(cs, 4))
    ELSE IF StartsWith(cs, <<"f", "a", "l", "s", "e">>) THEN Parsed(<<Literal("false")>>, Drop(cs, 5))
    ELSE match_number(cs)

JSONArray(cs, values) ==
    LET v == scan_once(cs)
        b == lstrip(v.rest)
    IN  IF ~v.ok \/ b = <<>> THEN NoParse
        ELSE IF Head(b) = "]" THEN Parsed(values \o v.toks \o <<Literal("]")>>, Tail(b))
        ELSE IF Head(b) = "," THEN JSONArray(lstrip(Tail(b)), values \o v.toks)
        ELSE NoParse

\* json.loads: one document with whitespace around it, else JSONDecodeError
\* (ok = FALSE).
json_loads(cs) ==
    LET v == scan_once(lstrip(cs))
    IN  IF v.ok /\ lstrip(v.rest) = <<>> THEN Parsed(v.toks, <<>>) ELSE NoParse

\* What Python's == goes by for a scalar: bool is a subclass of int, True is
\* 1 and False is 0.
eq_value(tok) ==
    IF tok.kind = "true" THEN Number(1, 0)
    ELSE IF tok.kind = "false" THEN Number(0, 0)
    ELSE tok

\* Python's == on two parsed documents: lists are equal when they have the
\* same length and equal elements.
python_eq(x, y) ==
    /\ Len(x) = Len(y)
    /\ \A k \in 1..Len(x) : eq_value(x[k]) = eq_value(y[k])

\* _outputs_match
outputs_match(actual, expected) ==
    LET a == strip(actual)
        e == strip(expected)
    IN  IF a = e THEN TRUE
        ELSE LET x == json_loads(a)
                 y == json_loads(e)
             IN  x.ok /\ y.ok /\ python_eq(x.toks, y.toks)

TestResult(index, status, stdout, exit_code, runtime) ==
    [test_index |-> index, status |-> status, stdout |-> stdout,
     exit_code |-> exit_code, runtime |-> runtime]

\* A test of the program under judgement: the expected output, and the stdout
\* and exit code of the program on that input when it runs to its end.
ProgramTest(expected, stdout, exit_code) ==
    [expected |-> expected, stdout |-> stdout, exit_code |-> exit_code]

\* _run_single_test lines 396-401, judged on the measured runtime as well: a
\* process that ends after timeout_per_test counts as a timeout.
verdict_by_runtime(limits, t, duration) ==
    IF duration > limits.timeout_per_test THEN "time_limit_exceeded"
    ELSE IF t.exit_code # 0 THEN "runtime_error"
    ELSE IF outputs_match(t.stdout, t.expected) THEN "success"
    ELSE "wrong_answer"

\* _run_single_test lines 396-401: the verdict of a process that ended.
verdict(limits, t, duration) ==
    IF t.exit_code # 0 THEN "runtime_error"
    ELSE IF outputs_match(t.stdout, t.expected) THEN "success"
    ELSE "wrong_answer"

\* _run_single_test: the process takes duration seconds in this run.
run_single_test(limits, t, index, remaining_time, duration) ==
    LET timeout == Min(limits.timeout_per_test + 1, remaining_time)
    IN  IF duration > timeout
        THEN TestResult(index, "time_limit_exceeded", <<>>, 124, limits.timeout_per_test)
        ELSE TestResult(index, verdict(limits, t, duration), t.stdout, t.exit_code, duration)

\* _execute_individual without line 360: the budget is never charged.
RECURSIVE execute_individual_uncharged(_, _, _, _, _)
execute_individual_uncharged(limits, tests, durations, k, remaining_time) ==
    IF k > Len(tests) THEN <<>>
    ELSE IF remaining_time <= 0
    THEN <<TestResult(k - 1, "time_limit_exceeded", <<>>, 124, 0)>>
            \o execute_individual_uncharged(limits, tests, durations, k + 1, remaining_time)
    ELSE <<run_single_test(limits, tests[k], k - 1, remaining_time, durations[k])>>
            \o execute_individual_uncharged(limits, tests, durations, k + 1, remaining_time)

\* _execute_individual, from the k-th test on.
RECURSIVE execute_individual(_, _, _, _, _)
execute_individual(limits, tests, durations, k, remaining_time) ==
    IF k > Len(tests) THEN <<>>
    ELSE IF remaining_time <= 0
    THEN <<TestResult(k - 1, "time_limit_exceeded", <<>>, 124, 0)>>
            \o execute_individual(limits, tests, durations, k + 1, remaining_time)
    ELSE LET result == run_single_test(limits, tests[k], k - 1, remaining_time, durations[k])
         IN  <<result>>
                \o execute_individual(limits, tests, durations, k + 1,
                                      remaining_time - result.runtime)

\* python_batch_runner.py run_single_test: the raw result of one test.
runner_single_test(limits, t, index, duration) ==
    IF duration > limits.timeout_per_test
    THEN [index |-> index, stdout |-> <<>>, exit_code |-> 124,
          runtime |-> limits.timeout_per_test]
    ELSE [index |-> index, stdout |-> t.stdout, exit_code |-> t.exit_code,
          runtime |-> duration]

\* _parse_batch_results
parse_batch_results(raw_results, tests) ==
    [k \in 1..Len(raw_results) |->
        LET raw == raw_results[k]
            status ==
                IF raw.exit_code = 124 THEN "time_limit_exceeded"
                ELSE IF raw.exit_code # 0 THEN "runtime_error"
                ELSE IF raw.index < Len(tests)
                        /\ outputs_match(raw.stdout, tests[raw.index + 1].expected)
                THEN "success"
                ELSE IF raw.index < Len(tests) THEN "wrong_answer"
                ELSE "success"
        IN  TestResult(raw.index, status, raw.stdout, raw.exit_code, raw.runtime)]

\* _create_error_results reporting the failure once, not once per input.
create_error_results_once(test_count, status) ==
    <<TestResult(0, status, <<>>, 1, 0)>>

\* _create_error_results
create_error_results(test_count, status) ==
    [k \in 1..test_count |-> TestResult(k - 1, status, <<>>, 1, 0)]

RECURSIVE SumRuntime(_)
SumRuntime(results) ==
    IF results = <<>> THEN 0 ELSE results[1].runtime + SumRuntime(Tail(results))

\* _execute_batch: the container takes overhead seconds besides the tests;
\* sandbox tells how docker run ended when it was not cut off: "ok", exit
\* code not 0 ("nonzero"), or exit code 0 with a stdout that is no JSON
\* ("garbage").
execute_batch(limits, tests, durations, overhead, sandbox) ==
    LET raw_results ==
            [k \in 1..Len(tests) |-> runner_single_test(limits, tests[k], k - 1, durations[k])]
    IN  IF overhead + SumRuntime(raw_results) > calculate_total_timeout(limits, Len(tests))
        THEN create_error_results(Len(tests), "time_limit_exceeded")
        ELSE IF sandbox = "nonzero"
        THEN create_error_results(Len(tests), "runtime_error")
        ELSE IF sandbox = "garbage"
        THEN create_error_results(Len(tests), "internal_error")
        ELSE parse_batch_results(raw_results, tests)

\* What one run of execute meets: how long each test's process takes, and
\* for BATCH the container's overhead and the way docker run ends, for
\* INDIVIDUAL whether _compile succeeds (it fails on a compiler error and on
\* the compilation timeout).
Durations == {1, 3, 4}

RunConditions(strategy, n) ==
    IF strategy = "batch"
    THEN { [durations |-> d, overhead |-> o, sandbox |-> x, compiled |-> TRUE] :
             d \in [1..n -> Durations], o \in {0, 20}, x \in {"ok", "nonzero", "garbage"} }
    ELSE IF strategy = "individual"
    THEN { [durations |-> d, overhead |-> 0, sandbox |-> "ok", compiled |-> c] :
             d \in [1..n -> Durations], c \in BOOLEAN }
    ELSE { [durations |-> <<>>, overhead |-> 0, sandbox |-> "ok", compiled |-> TRUE] }

\* execute for a language of the given strategy (BATCH languages have no
\* compile command, INDIVIDUAL ones have one); "unsupported" is a slug
\* get_language does not know (lines 121-126).
execute(limits, strategy, tests, run) ==
    IF strategy = "unsupported" THEN error_result(Len(tests))
    ELSE IF ~run.compiled THEN compile_error_result(Len(tests))
    ELSE build_result(
            IF strategy = "batch"
            THEN execute_batch(limits, tests, run.durations, run.overhead, run.sandbox)
            ELSE execute_individual(limits, tests, run.durations, 1,
                                    calculate_total_timeout(limits, Len(tests))))

\* How the sandbox runs of a run of execute ended, whatever time they took:
\* per test "ended", "timeout" (cut off by a time limit) or "skipped" (not
\* launched), or the way the compilation or the whole BATCH container ended.
RECURSIVE individual_ends(_, _, _, _, _)
individual_ends(limits, tests, durations, k, remaining_time) ==
    IF k > Len(tests) THEN <<>>
    ELSE IF remaining_time <= 0
    THEN <<"skipped">> \o individual_ends(limits, tests, durations, k + 1, remaining_time)
    ELSE LET result == run_single_test(limits, tests[k], k - 1, remaining_time, durations[k])
         IN  <<IF durations[k] > Min(limits.timeout_per_test + 1, remaining_time)
               THEN "timeout" ELSE "ended">>
                \o individual_ends(limits, tests, durations, k + 1,
                                   remaining_time - result.runtime)

sandbox_ends(limits, strategy, tests, run) ==
    IF strategy = "unsupported" THEN <<>>
    ELSE IF ~run.compiled THEN <<"not compiled">>
    ELSE IF strategy = "batch"
    THEN LET raw_results ==
                 [k \in 1..Len(tests) |->
                     runner_single_test(limits, tests[k], k - 1, run.durations[k])]
         IN  IF run.overhead + SumRuntime(raw_results)
                    > calculate_total_timeout(limits, Len(tests))
             THEN <<"container timeout">>
             ELSE IF run.sandbox # "ok" THEN <<run.sandbox>>
             ELSE [k \in 1..Len(tests) |->
                     IF run.durations[k] > limits.timeout_per_test THEN "timeout" ELSE "ended"]
    ELSE individual_ends(limits, tests, run.durations, 1,
                         calculate_total_timeout(limits, Len(tests)))

\* The programs judged: per test, an exit code and a stdout that equals the
\* expected output or not.
ProgramTests ==
    {ProgramTest(<<"1">>, out, code) : out \in {<<"1">>, <<>>}, code \in {0, 1, 124}}

EngineInputs ==
    { [pc |-> "ready", limits |-> l, strategy |-> s, tests |-> t, runs |-> <<>>] :
        l \in Limits, s \in {"batch", "individual", "unsupported"},
        t \in UNION { [1..n -> ProgramTests] : n \in 1..MaxEngineTests } }

InitEngine ==
    /\ rows = <<>>
    /\ db_tests = <<>>
    /\ cache = [p \in Procs |-> NoCache]
    /\ bg = [i \in 1..MaxSubs |-> IdleTask]
    /\ wk = [w \in Workers |-> IdleWorker]
    /\ judged = [i \in 1..MaxSubs |-> {}]
    /\ last_create = NoReturn
    /\ queue = <<>>
    /\ blocked = <<>>
    /\ dq = [w \in Workers |-> IdleDequeue]
    /\ pushed = <<>>
    /\ popped = <<>>
    /\ exec_result = NoExec
    /\ last_get = NoGet
    /\ snapshot = [i \in 1..MaxSubs |-> NoPayload]
    /\ channel_log = [i \in 1..MaxSubs |-> <<>>]
    /\ pub = [p \in Procs |-> IdlePublisher]
    /\ calls = 0
    /\ sockets = [v \in Viewers |-> NoConnection]
    /\ engine \in EngineInputs
    /\ loop = [w \in Workers |-> NoLoop]

\* One more run of execute on the same code, language and tests.
Execute ==
    /\ engine.pc = "ready"
    /\ Len(engine.runs) < 2
    /\ \E run \in RunConditions(engine.strategy, Len(engine.tests)) :
          engine' = [engine EXCEPT !.runs = Append(@,
                        [sandbox |-> run.sandbox, compiled |-> run.compiled,
                         ends |-> sandbox_ends(engine.limits, engine.strategy, engine.tests, run),
                         result |-> execute(engine.limits, engine.strategy, engine.tests, run)])]
    /\ UNCHANGED <<rows, db_tests, cache, bg, wk, judged, last_create, exec_result, queue_vars,
                 last_get, pubsub_vars, loop>>

EngineSpec == InitEngine /\ [][Execute]_vars

\* ------------------------------------------------ the source file written
\* An Optional[str] is the empty set (None) or the set of its one string.
\* Python's truth test of it: None and "" are false.
Truthy(opt) == opt # {} /\ opt # {""}

\* Slugs of LANGUAGES, and those with an entry in _DRIVER_TEMPLATES.
LanguageSlugs == {"python3", "python", "java", "c"}

DRIVER_TEMPLATES == {"python3", "python"}

\* generate_driver: the template with function_name filled in, or None.
generate_driver(language_slug, function_name) ==
    IF language_slug \in DRIVER_TEMPLATES
    THEN {[template |-> "python", function_name |-> function_name]}
    ELSE {}

\* _write_solution: what is written to the solution file, piece by piece.
write_solution(language_slug, code, function_name) ==
    IF Truthy(function_name)
    THEN LET driver == generate_driver(language_slug, CHOOSE f \in function_name : TRUE)
         IN  IF driver # {}
             THEN <<code, "\n", CHOOSE d \in driver : TRUE>>
             ELSE <<code>>
    ELSE <<code>>

\* judge_submission's call of run_code: code, language_slug, test_inputs and
\* expected_outputs are the only arguments given, so run_code's function_name
\* keeps its default None whatever the problem's column holds.
judge_function_name(problem_function_name) == {}

FunctionNames == {{}, {""}, {"twoSum"}}

Codes == {"class Solution", "print(1)"}

InitSources ==
    /\ rows = <<>>
    /\ db_tests = <<>>
    /\ cache = [p \in Procs |-> NoCache]
    /\ bg = [i \in 1..MaxSubs |-> IdleTask]
    /\ wk = [w \in Workers |-> IdleWorker]
    /\ judged = [i \in 1..MaxSubs |-> {}]
    /\ last_create = NoReturn
    /\ queue = <<>>
    /\ blocked = <<>>
    /\ dq = [w \in Workers |-> IdleDequeue]
    /\ pushed = <<>>
    /\ popped = <<>>
    /\ exec_result = NoExec
    /\ last_get = NoGet
    /\ snapshot = [i \in 1..MaxSubs |-> NoPayload]
    /\ channel_log = [i \in 1..MaxSubs |-> <<>>]
    /\ pub = [p \in Procs |-> IdlePublisher]
    /\ calls = 0
    /\ sockets = [v \in Viewers |-> NoConnection]
    /\ engine = [pc |-> "writing", written |-> <<>>]
    /\ loop = [w \in Workers |-> NoLoop]

\* run_code(code, language_slug, ..., function_name) up to the writing of the
\* solution file; caller and problem are kept for the record.
WriteSource(caller, problem_function_name, language_slug, code, function_name) ==
    /\ engine.pc = "writing"
    /\ Len(engine.written) < MaxWrites
    /\ engine' = [engine EXCEPT !.written = Append(@,
                    [caller |-> caller, problem_function_name |-> problem_function_name,
                     language_slug |-> language_slug, code |-> code,
                     function_name |-> function_name,
                     source |-> write_solution(language_slug, code, function_name)])]
    /\ UNCHANGED <<rows, db_tests, cache, bg, wk, judged, last_create, exec_result, queue_vars,
                 last_get, pubsub_vars, loop>>

\* judge_submission runs the code of a submission to a problem.
JudgeRunCode ==
    \E f \in FunctionNames, l \in LanguageSlugs, c \in Codes :
        WriteSource("judge_submission", f, l, c, judge_function_name(f))

\* Any other caller of run_code, giving a function_name or not.
RunCode ==
    \E f \in FunctionNames, l \in LanguageSlugs, c \in Codes :
        WriteSource("run_code", f, l, c, f)

NextSources == JudgeRunCode \/ RunCode

SourceSpec == InitSources /\ [][NextSources]_vars

\* ------------------------------------------------- _outputs_match, alone
\* The characters of the systematic outputs, and outputs picked beside them:
\* JSON documents that differ in spacing, in the spelling of a number, or
\* in the type of a scalar, and text that is no JSON.
OutputChars == {" ", "\n", "0", "1", ".", "-", "[", "]", ","}

SampleOutputs ==
    { <<"t", "r", "u", "e">>, <<"f", "a", "l", "s", "e">>, <<"n", "u", "l", "l">>,
      <<"t", "r", "u", "e", "\n">>, <<"T", "r", "u", "e">>, <<"y", "e", "s">>,
      <<"1", ".", "0">>, <<"1", "e", "0">>, <<"1", "e", "1">>, <<"1", "0", ".", "0">>,
      <<"0", ".", "0">>, <<"-", "0", ".", "0">>, <<"0", "1", "\n">>,
      <<"[", "0", ",", " ", "1", "]">>, <<"[", "0", ",", "1", "]">>, <<"[", "0", ",", "1", "]", "\n">>,
      <<"[", "1", ",", "0", "]">>, <<"[", "1", "]">>, <<"[", "1", ".", "0", "]">>,
      <<"[", "t", "r", "u", "e", "]">>, <<"[", "[", "1", "]", "]">>, <<"[", " ", "]">>,
      <<"[", "1", ",", "]">>, <<"[", "0", "]", " ", "1">> }

Outputs ==
    UNION { [1..n -> OutputChars] : n \in 0..MaxOutputLen } \cup SampleOutputs

InitCompare ==
    /\ rows = <<>>
    /\ db_tests = <<>>
    /\ cache = [p \in Procs |-> NoCache]
    /\ bg = [i \in 1..MaxSubs |-> IdleTask]
    /\ wk = [w \in Workers |-> IdleWorker]
    /\ judged = [i \in 1..MaxSubs |-> {}]
    /\ last_create = NoReturn
    /\ queue = <<>>
    /\ blocked = <<>>
    /\ dq = [w \in Workers |-> IdleDequeue]
    /\ pushed = <<>>
    /\ popped = <<>>
    /\ exec_result = NoExec
    /\ last_get = NoGet
    /\ snapshot = [i \in 1..MaxSubs |-> NoPayload]
    /\ channel_log = [i \in 1..MaxSubs |-> <<>>]
    /\ pub = [p \in Procs |-> IdlePublisher]
    /\ calls = 0
    /\ sockets = [v \in Viewers |-> NoConnection]
    /\ engine \in { [pc |-> "comparing", actual |-> a, expected |-> e, matched |-> FALSE] :
                      a \in Outputs, e \in Outputs }
    /\ loop = [w \in Workers |-> NoLoop]

\* The call _outputs_match(actual, expected) of _run_single_test and
\* _parse_batch_results.
CompareOutputs ==
    /\ engine.pc = "comparing"
    /\ engine' = [engine EXCEPT !.pc = "compared",
                                !.matched = outputs_match(engine.actual, engine.expected)]
    /\ UNCHANGED <<rows, db_tests, cache, bg, wk, judged, last_create, exec_result, queue_vars,
                 last_get, pubsub_vars, loop>>

CompareSpec == InitCompare /\ [][CompareOutputs]_vars

\* ================================================================ claims
StatusOf(i) == IF i <= Len(rows) THEN rows[i].status ELSE "absent"

AllowedChange(a, b) ==
    \/ a = b
    \/ a = "pending" /\ b = "running"
    \/ a = "running" /\ b \in Terminal
    \/ a = "pending" /\ b = "runtime_error"

\* C1: every change of a submission's status is PENDING->RUNNING,
\* RUNNING->terminal, PENDING->RUNTIME_ERROR or RUNNING->RUNTIME_ERROR; a
\* terminal status never becomes RUNNING or PENDING again.
C1_AllowedTransitions ==
    [][\A i \in 1..Len(rows) : AllowedChange(rows[i].status, rows'[i].status)]_vars

\* C2: once a submission's status is terminal, no later operation changes
\* any of its fields.
C2_TerminalFrozen ==
    [][\A i \in 1..Len(rows) : rows[i].status \in Terminal => rows'[i] = rows[i]]_vars

\* C3: a submission delivered for judging twice (the API's background task
\* and a worker) is judged by one judging run only.
C3_OneJudgingRun == \A i \in 1..MaxSubs : Cardinality(judged[i]) <= 1

\* C4: with several JudgeWorkers on the same table, no submission is passed
\* to judge_submission by more than one worker, for every row of a batch.
C4_OneWorkerPerSubmission ==
    \A i \in 1..MaxSubs : Cardinality(judged[i] \cap Workers) <= 1

\* C5: with the background tasks and the worker running fairly and no crash,
\* every submission created eventually has a terminal status.
C5_EventuallyTerminal ==
    \A i \in 1..MaxSubs : (StatusOf(i) # "absent") ~> (StatusOf(i) \in Terminal)

\* A row left RUNNING by a worker that died while judging it.
Stuck(i) ==
    /\ StatusOf(i) = "running"
    /\ \E w \in Workers : wk[w].pc = "dead" /\ wk[w].batch[wk[w].idx] = i

\* C6: a submission left RUNNING by a judging process that died is eventually
\* reset and judged to a terminal status by a surviving worker.
C6_CrashRecovery ==
    \A i \in 1..MaxSubs : Stuck(i) ~> (StatusOf(i) \in Terminal)

\* C7: in every committed state of every submission, passed is true exactly
\* when status is ACCEPTED.
C7_PassedIffAccepted ==
    \A i \in 1..Len(rows) : rows[i].passed <=> (rows[i].status = "accepted")

\* C8: in every committed state of every submission, passed_count is at most
\* total_count.
C8_PassedCountBounded ==
    \A i \in 1..Len(rows) : rows[i].passed_count <= rows[i].total_count

HiddenKeys == {"input", "expected_output", "actual_output", "stderr"}

\* C9: a results entry of a hidden test case holds none of input,
\* expected_output, actual_output, stderr; an entry of a visible test case
\* holds input, expected_output and actual_output.
C9_HiddenNotLeaked ==
    \A i \in 1..Len(rows) : \A k \in 1..Len(rows[i].results) :
        LET e == rows[i].results[k]
        IN  "test_case_id" \in e.keys =>
              IF e.is_hidden THEN e.keys \cap HiddenKeys = {}
              ELSE IOKeys \subseteq e.keys

\* A judged submission whose hidden test case failed with output on stderr.
C9_Witness ==
    \E i \in 1..Len(rows) : \E k \in 1..Len(rows[i].results) :
        /\ rows[i].status = "runtime_error"
        /\ "test_case_id" \in rows[i].results[k].keys
        /\ rows[i].results[k].is_hidden
        /\ rows[i].results[k].status = "runtime_error"

\* C10: a successful create_submission inserts exactly one row, PENDING with
\* passed = false, passed_count = 0 and total_count the length of the list
\* the cache returned at that instant, and returns that row and that list.
C10_CreateInsertsPending ==
    [][(Len(rows') # Len(rows) \/ (last_create' # last_create /\ last_create'.outcome = "ok")) =>
        LET returned == IF cache[API].hit THEN cache[API].tests ELSE db_tests
            id == Len(rows) + 1
        IN  /\ Len(rows') = id
            /\ \A i \in 1..Len(rows) : rows'[i] = rows[i]
            /\ rows'[id].status = "pending"
            /\ rows'[id].passed = FALSE
            /\ rows'[id].passed_count = 0
            /\ rows'[id].total_count = Len(returned)
            /\ last_create' = [outcome |-> "ok", id |-> id, tests |-> returned]]_vars

\* A second submission created against a cached one-element list.
C10_Witness ==
    /\ last_create.outcome = "ok"
    /\ last_create.id = 2
    /\ Len(last_create.tests) = 1
    /\ Len(rows) = 2
    /\ rows[2].status = "pending"
    /\ rows[2].total_count = 1


\* C11: after every successful create_submission the new id is in the job
\* queue judge:queue, and no id is in the queue before its row is committed.
C11_EnqueuedAfterCreate ==
    [][/\ (last_create' # last_create /\ last_create'.outcome = "ok") =>
            \E k \in 1..Len(queue') : queue'[k] = str(last_create'.id)
       /\ \A k \in 1..Len(queue') : int_or_none(queue'[k]).value <= Len(rows')]_vars

\* C12: create_submission raises NOT_FOUND when the problem or the language
\* does not exist and the 400 error when the language is not active; a
\* failing call inserts no row, enqueues nothing and starts no judging.
C12_FailedCreateChangesNothing ==
    [][\A u \in UserIds, p \in ProblemIds, l \in LanguageIds :
          (create_submission(u, p, l) /\ (p \notin Problems \/ l \notin ActiveLanguages)) =>
              /\ last_create'.outcome =
                    IF p \notin Problems \/ l \notin Languages THEN "not_found"
                    ELSE "bad_request"
              /\ last_create'.id = 0
              /\ rows' = rows
              /\ queue' = queue
              /\ bg' = bg
              /\ judged' = judged]_vars

\* A call for an inactive language, made after a submission was created.
C12_Witness ==
    /\ last_create.outcome = "bad_request"
    /\ Len(rows) = 1
    /\ bg[1].pc = "scheduled"

\* C13: get_submission(id, user_id) returns the row exactly when it exists
\* and user_id owns it; for another user's submission the outcome is the
\* NOT_FOUND of a missing id, and no row is modified.
C13_OwnerScopedRead ==
    [][\A i \in 1..(MaxSubs + 1), u \in UserIds :
          get_submission(i, u) =>
              LET owned == i \in 1..Len(rows) /\ rows[i].user_id = u
              IN  /\ (last_get'.outcome = "ok") <=> owned
                  /\ owned => last_get'.row = rows[i]
                  /\ ~owned => (last_get'.outcome = "not_found" /\ last_get'.row = NoRow)
                  /\ rows' = rows]_vars

\* A read of an existing, judged submission by a user who does not own it.
C13_Witness ==
    /\ last_get.outcome = "not_found"
    /\ last_get.submission_id \in 1..Len(rows)
    /\ rows[last_get.submission_id].user_id # last_get.user_id
    /\ rows[last_get.submission_id].status = "accepted"

\* C14: for every ExecutionResult run_code returns to judge_submission, the
\* row committed for it has status STATUS_MAP of the engine status and the
\* result's passed_count and total_count.
C14_ResultPersisted ==
    [][exec_result' # exec_result =>
          LET r == exec_result'.result
              row == rows'[exec_result'.id]
          IN  /\ row.status = STATUS_MAP(r.status)
              /\ row.passed_count = r.passed_count
              /\ row.total_count = r.total_count]_vars

\* The number of inputs process p passed to run_code for submission i.
InputCount(p, i) == IF p = API THEN Len(bg[i].tests) ELSE Len(wk[p].tests)

\* C15: when compilation fails the engine result is COMPILATION_ERROR with no
\* test result, passed_count 0 and total_count the number of inputs, and the
\* submission is committed COMPILATION_ERROR, passed = false, with a
\* compilation_error record as results[0].
C15_CompilationError ==
    [][(exec_result' # exec_result /\ exec_result'.result.status = "compilation_error") =>
          LET r == exec_result'.result
              row == rows'[exec_result'.id]
          IN  /\ r.test_results = <<>>
              /\ r.passed_count = 0
              /\ r.total_count = InputCount(exec_result'.proc, exec_result'.id)
              /\ row.status = "compilation_error"
              /\ row.passed = FALSE
              /\ Len(row.results) >= 1
              /\ row.results[1] = CompilationEntry]_vars

\* Process p ends, in this step, a judge_submission call on submission i for
\* which it had loaded an empty test-case list.
AcceptsTrivially(p, i) ==
    IF p = API
    THEN bg[i].pc = "executing" /\ bg[i].tests = <<>> /\ bg'[i].pc # "executing"
    ELSE /\ wk[p].pc = "executing" /\ wk[p].tests = <<>>
         /\ wk[p].batch[wk[p].idx] = i
         /\ wk'[p].pc \notin {"executing", "dead"}

\* C16: when judge_submission loads an empty test-case list, the submission
\* is committed ACCEPTED with passed = true, passed_count = 0, total_count = 0
\* and results = [], and run_code is not called.
C16_EmptyTestsAccepted ==
    [][\A p \in Procs, i \in 1..Len(rows) :
          AcceptsTrivially(p, i) =>
              /\ rows'[i].status = "accepted"
              /\ rows'[i].passed = TRUE
              /\ rows'[i].passed_count = 0
              /\ rows'[i].total_count = 0
              /\ rows'[i].results = <<>>
              /\ exec_result' = exec_result]_vars

\* Process p's judge_submission call on submission i ends in this step with
\* an exception raised after the row was marked RUNNING.
JudgingRaised(p, i) ==
    IF p = API
    THEN bg[i].pc = "executing" /\ bg'[i].pc = "raised"
    ELSE /\ wk[p].pc \in {"executing", "handler"}
         /\ wk[p].batch[wk[p].idx] = i
         /\ wk'[p].pc \notin {"executing", "handler", "dead"}
         /\ \/ wk[p].pc = "handler"
            \/ /\ wk[p].tests # <<>>
               /\ wk[p].snap.language_id \in Languages
               /\ exec_result' = exec_result

\* C17: if judging raises after the submission was marked RUNNING, the
\* submission is committed RUNTIME_ERROR with results = [{error: ...}], on
\* the JudgeWorker path and on the API background-task path.
C17_ExceptionCommitsRuntimeError ==
    [][\A p \in Procs, i \in 1..Len(rows) :
          JudgingRaised(p, i) =>
              /\ rows'[i].status = "runtime_error"
              /\ rows'[i].results = <<ErrorEntry>>]_vars

\* No publish_status_sync call for submission i is between its two commands.
NoPublishInProgress(i) == \A p \in Procs : pub[p].done = 0 \/ pub[p].id # i

\* The payload of the latest call among those broadcast for submission i.
LatestBroadcast(i) ==
    CHOOSE m \in {channel_log[i][k] : k \in 1..Len(channel_log[i])} :
        \A k \in 1..Len(channel_log[i]) : channel_log[i][k].stamp <= m.stamp

\* C18: publish_status_sync writes sub:status:{id} before it broadcasts: when
\* a payload has been broadcast, the unexpired snapshot holds that payload or
\* the payload of a later call, and a viewer that connects after the last
\* broadcast is sent the latest published payload from the snapshot.
C18_SnapshotBeforeBroadcast ==
    [][/\ \A i \in 1..MaxSubs : \A k \in 1..Len(channel_log'[i]) :
             snapshot'[i] # NoPayload => snapshot'[i].stamp >= channel_log'[i][k].stamp
       /\ \A v \in Viewers, i \in 1..MaxSubs :
             (/\ WsConnect(v, i)
              /\ NoPublishInProgress(i)
              /\ channel_log[i] # <<>>
              /\ snapshot[i] # NoPayload) =>
                 sockets'[v].sent = <<LatestBroadcast(i)>>]_vars

\* A viewer connected after two overlapping calls for its submission were
\* both broadcast, and was sent the snapshot.
C18_Witness ==
    \E v \in Viewers :
        /\ sockets[v].pc = "accepted"
        /\ Len(channel_log[sockets[v].id]) = 2
        /\ channel_log[sockets[v].id][1].stamp = 2
        /\ NoPublishInProgress(sockets[v].id)
        /\ Len(sockets[v].sent) = 1
        /\ sockets[v].sent[1].stamp = 2

\* The number of messages with a terminal status sent on connection v.
TerminalsSent(v) ==
    Cardinality({k \in 1..Len(sockets[v].sent) : is_terminal(sockets[v].sent[k])})

\* The submission of connection v has been judged and its verdict published,
\* and the connection has nothing left to read.
Settled(v) ==
    /\ sockets[v].pc \in {"listening", "closed"}
    /\ sockets[v].inbox = <<>>
    /\ Len(channel_log[sockets[v].id]) = 2
    /\ NoPublishInProgress(sockets[v].id)

\* C19: a viewer of a judged submission is sent exactly one message with a
\* terminal status, whenever it connected: never two, and not zero once the
\* verdict has been published and everything delivered.
C19_ExactlyOneTerminal ==
    \A v \in Viewers :
        /\ TerminalsSent(v) <= 1
        /\ Settled(v) => TerminalsSent(v) = 1

\* C20: after the first terminal message sent on a connection, from the
\* channel or from the snapshot, the connection is eventually closed and no
\* further message is sent on it.
C20_ClosedAfterTerminal ==
    /\ \A v \in Viewers : (TerminalsSent(v) >= 1) ~> (sockets[v].pc = "closed")
    /\ [][\A v \in Viewers :
             TerminalsSent(v) >= 1 => sockets'[v].sent = sockets[v].sent]_vars

\* The subjects of Subjects that are integers written in decimal.
IntegerSubjects == { <<"1">>, <<"2">>, <<"1", "2">>, <<"-", "1">> }

InvalidToken(token) ==
    ~token.decodable \/ ~token.has_sub \/ token.sub \notin IntegerSubjects

\* C21: a connection whose token is undecodable or whose subject is missing
\* or no integer is closed with code 4001 and never accepted; on that path
\* the snapshot is not read, nothing is sent and nothing is subscribed.
C21_InvalidTokenRejected ==
    [][\A v \in Viewers :
          /\ \A i \in 1..MaxSubs, token \in Tokens :
                (submission_ws(v, i, token) /\ InvalidToken(token)) =>
                    /\ sockets'[v].pc = "rejected"
                    /\ sockets'[v].code = 4001
                    /\ ~sockets'[v].read
                    /\ ~sockets'[v].subscribed
                    /\ sockets'[v].pubsub = "none"
                    /\ sockets'[v].sent = <<>>
          /\ sockets[v].pc = "rejected" => sockets'[v] = sockets[v]]_vars

\* A connection rejected while its submission had a snapshot to read and a
\* channel that had carried messages.
C21_Witness ==
    \E v \in Viewers :
        /\ sockets[v].pc = "rejected"
        /\ sockets[v].code = 4001
        /\ snapshot[sockets[v].id] # NoPayload
        /\ channel_log[sockets[v].id] # <<>>

\* The client of connection v has left a subscribed connection whose
\* submission's verdict has already been published in full.
LeftAfterVerdict(v) ==
    /\ sockets[v].gone
    /\ sockets[v].subscribed
    /\ Len(channel_log[sockets[v].id]) = 2
    /\ NoPublishInProgress(sockets[v].id)

\* C22: whenever the forwarding loop of a subscribed connection is left, by
\* a terminal message, a client disconnect or any other error, the gateway
\* has unsubscribed and closed its pub/sub handle; and no subscription
\* outlives its connection: once the client has disconnected the
\* subscription is eventually given up, also when no message is to come.
C22_SubscriptionReleased ==
    /\ [][\A v \in Viewers :
             (sockets[v].pc = "listening" /\ sockets'[v].pc # "listening") =>
                 (~sockets'[v].subscribed /\ sockets'[v].pubsub = "closed")]_vars
    /\ \A v \in Viewers : LeftAfterVerdict(v) ~> ~sockets[v].subscribed

\* The test_index values of the test_result events in a channel's history.
TestIndexes(log) ==
    LET events == SelectSeq(log, LAMBDA m : m.status = "test_result")
    IN  [k \in 1..Len(events) |-> events[k].test_index]

\* C23: when a judging run has classified every test of a non-empty list,
\* the test_result events published on submission:{id} carry the indexes
\* 0 .. total_count-1, one each, in ascending order.
C23_TestResultEvents ==
    [][(/\ exec_result' # exec_result
        /\ exec_result'.result.total_count >= 1
        /\ Len(exec_result'.result.test_results) = exec_result'.result.total_count) =>
            TestIndexes(channel_log'[exec_result'.id]) =
                [k \in 1..exec_result'.result.total_count |-> k - 1]]_vars

\* A message with a terminal status has been published on submission:{i}.
TerminalPublished(i) ==
    \E k \in 1..Len(channel_log[i]) : channel_log[i][k].status \in Terminal

\* C24: after a message with a terminal status has been published on
\* submission:{id}, no further message is published on that channel.
C24_NothingAfterTerminal ==
    [][\A i \in 1..MaxSubs :
          TerminalPublished(i) => channel_log'[i] = channel_log[i]]_vars

\* No process is inside a judge_submission call on submission i.
NobodyJudging(i) ==
    /\ bg[i].pc # "executing"
    /\ \A w \in Workers :
          ~(wk[w].pc \in {"executing", "handler"} /\ wk[w].batch[wk[w].idx] = i)

\* C25: once a submission's row has a terminal status and its judging run
\* has returned, a message with that status has been published on
\* submission:{id}; and a message with a terminal status is published only
\* when the row already holds that status.
C25_TerminalRowPublished ==
    /\ [](\A i \in 1..Len(rows) :
             (rows[i].status \in Terminal /\ NobodyJudging(i)) =>
                 \E k \in 1..Len(channel_log[i]) : channel_log[i][k].status = rows[i].status)
    /\ [][\A i \in 1..MaxSubs :
             \A k \in (Len(channel_log[i]) + 1)..Len(channel_log'[i]) :
                 channel_log'[i][k].status \in Terminal =>
                     StatusOf(i) = channel_log'[i][k].status]_vars

\* The entries of judge:queue as ids, oldest first.
Waiting == [k \in 1..Len(queue) |-> int_or_none(queue[Len(queue) + 1 - k]).value]

\* C26: the job queue is FIFO with single delivery: the ids returned by
\* dequeue_submission are, in order, the ids enqueue_submission appended, each
\* enqueued entry is returned to at most one call and is otherwise still in
\* the queue, also with several workers waiting; and a dequeue whose timeout
\* runs out on an empty queue returns None and removes nothing.
C26_FifoSingleDelivery ==
    /\ [](pushed = popped \o Waiting)
    /\ [][\A w \in Workers :
             /\ (dq'[w] # dq[w] /\ dq'[w].state = "returned" /\ ~dq'[w].value.none) =>
                   /\ popped' = Append(popped, dq'[w].value.value)
                   /\ \A x \in Workers \ {w} : dq'[x] = dq[x]
             /\ brpop_timeout(w) =>
                   /\ queue = <<>>
                   /\ dq'[w].value = None
                   /\ queue' = queue
                   /\ popped' = popped]_vars

\* Two workers that both waited were served, in the order of the ids
\* enqueued, while a third id is still queued.
C26_Witness ==
    /\ popped = <<10, 1>>
    /\ pushed = <<10, 1, 2>>
    /\ queue = <<str(2)>>
    /\ \A w \in Workers : dq[w].state = "returned" /\ dq[w].waited
    /\ dq[2].value = Some(10)
    /\ dq[1].value = Some(1)

\* The per-test statuses of an ExecutionResult, and the stdout and exit code
\* its TestResults record.
Statuses(result) ==
    [k \in 1..Len(result.test_results) |-> result.test_results[k].status]

RecordedOutputs(result) ==
    [k \in 1..Len(result.test_results) |->
        <<result.test_results[k].stdout, result.test_results[k].exit_code>>]

SameVerdicts(a, b) ==
    Statuses(a.result) = Statuses(b.result) /\ a.result.status = b.result.status

C28_DriverAppended ==
    engine.pc = "writing" =>
        \A k \in 1..Len(engine.written) :
            LET w == engine.written[k]
            IN  w.caller = "judge_submission" =>
                    IF Truthy(w.problem_function_name) /\ w.language_slug \in DRIVER_TEMPLATES
                    THEN /\ w.function_name = w.problem_function_name
                         /\ w.source = <<w.code, "\n",
                                         [template |-> "python",
                                          function_name |-> CHOOSE f \in w.problem_function_name : TRUE]>>
                    ELSE w.source = <<w.code>>

\* C29: after SIGINT or SIGTERM reaches a worker whose self.running is True,
\* the worker leaves the judging of a submission only by finishing it, with
\* a status other than RUNNING committed; it passes the loop test of run()
\* no more, so no new polling round begins; and run() returns.
C29_GracefulShutdown ==
    /\ [][\A w \in Workers :
            (loop[w].delivered /\ Judging(w) # 0 /\ Judging(w)' # Judging(w)) =>
                /\ wk'[w] = Advance(w)
                /\ rows'[Judging(w)].status \notin {"pending", "running"}]_vars
    /\ [][\A w \in Workers :
            loop[w].delivered => ~(loop[w].pc = "test" /\ loop'[w].pc = "polling")]_vars
    /\ [][\A w \in Workers :
            (loop[w].pc # "returned" /\ loop'[w].pc = "returned") => wk[w].pc = "idle"]_vars
    /\ \A w \in Workers : loop[w].delivered ~> loop[w].pc = "returned"

\* A signal reached the worker while it was judging a submission, that
\* submission has its verdict, and run() has returned.
C29_Witness ==
    \E w \in Workers :
        /\ loop[w].pc = "returned"
        /\ loop[w].delivered
        /\ loop[w].judging # 0
        /\ rows[loop[w].judging].status \notin {"pending", "running"}

\* The tests of a per-test list that have the given status.
TestsWith(trs, status) == {k \in 1..Len(trs) : trs[k].status = status}

\* C30: for every per-test list the engine produced, the aggregate status is
\* SUCCESS if every test passed, otherwise TIME_LIMIT_EXCEEDED if a test is
\* TIME_LIMIT_EXCEEDED, otherwise RUNTIME_ERROR if a test is RUNTIME_ERROR,
\* otherwise WRONG_ANSWER; and passed_count is the number of SUCCESS tests.
C30_AggregateByPrecedence ==
    engine.pc = "ready" =>
        \A r \in 1..Len(engine.runs) :
            LET result == engine.runs[r].result
                trs == result.test_results
            IN  ~result.compilation_output =>
                  /\ result.passed_count = Cardinality(TestsWith(trs, "success"))
                  /\ result.status =
                        IF TestsWith(trs, "success") = 1..Len(trs) THEN "success"
                        ELSE IF TestsWith(trs, "time_limit_exceeded") # {}
                             THEN "time_limit_exceeded"
                        ELSE IF TestsWith(trs, "runtime_error") # {} THEN "runtime_error"
                        ELSE "wrong_answer"

\* A run whose first test is RUNTIME_ERROR and whose second test is
\* TIME_LIMIT_EXCEEDED, aggregated as TIME_LIMIT_EXCEEDED.
C30_Witness ==
    /\ engine.pc = "ready"
    /\ \E r \in 1..Len(engine.runs) :
          LET result == engine.runs[r].result
          IN  /\ Len(result.test_results) = 2
              /\ result.test_results[1].status = "runtime_error"
              /\ result.test_results[2].status = "time_limit_exceeded"
              /\ result.status = "time_limit_exceeded"
              /\ result.passed_count = 0

\* What _execute_batch returns through _build_result when the runner exited 0
\* and its stdout was not JSON: one INTERNAL_ERROR entry per input.
UnparsableRun(r, n) ==
    /\ n > 0
    /\ Len(r.test_results) = n
    /\ \A k \in 1..n : r.test_results[k].status = "internal_error"

\* C31: when the batch runner exits 0 and its stdout is not JSON, the
\* submission is committed with status RUNTIME_ERROR.
C31_UnparsableIsRuntimeError ==
    [][(/\ exec_result' # exec_result
        /\ UnparsableRun(exec_result'.result,
                         InputCount(exec_result'.proc, exec_result'.id))) =>
          rows'[exec_result'.id].status = "runtime_error"]_vars

\* The runs of execute that classified their tests one by one: compilation
\* succeeded and, for BATCH, the container returned the runner's JSON.
PerTestRun(run) ==
    /\ Len(run.ends) = Len(engine.tests)
    /\ \A k \in 1..Len(run.ends) : run.ends[k] \in {"ended", "timeout", "skipped"}

\* C32: under both strategies every test is classified by this priority:
\* exit code 124 gives TIME_LIMIT_EXCEEDED, another exit code than 0 gives
\* RUNTIME_ERROR, exit code 0 gives SUCCESS when stdout matches the expected
\* output of that test and WRONG_ANSWER when it does not.
C32_VerdictPriority ==
    engine.pc = "ready" =>
        \A r \in 1..Len(engine.runs) :
            PerTestRun(engine.runs[r]) =>
                \A k \in 1..Len(engine.runs[r].result.test_results) :
                    LET tr == engine.runs[r].result.test_results[k]
                    IN  tr.status =
                            IF tr.exit_code = 124 THEN "time_limit_exceeded"
                            ELSE IF tr.exit_code # 0 THEN "runtime_error"
                            ELSE IF outputs_match(tr.stdout, engine.tests[k].expected)
                                 THEN "success"
                            ELSE "wrong_answer"

\* The time budget left before test k of a per-test list: the total timeout
\* less the runtimes reported for the tests before it.
RemainingBefore(trs, k) ==
    calculate_total_timeout(engine.limits, Len(engine.tests))
        - SumRuntime(SubSeq(trs, 1, k - 1))

\* C33: under INDIVIDUAL the budget starts at the total timeout and is
\* charged the runtime of every test launched; a test reached with no budget
\* left is not launched and is reported TIME_LIMIT_EXCEEDED with exit code
\* 124; the list has one entry per test, with test_index 0..n-1 in order.
C33_IndividualBudget ==
    (engine.pc = "ready" /\ engine.strategy = "individual") =>
        \A r \in 1..Len(engine.runs) :
            engine.runs[r].compiled =>
                LET trs == engine.runs[r].result.test_results
                    ends == engine.runs[r].ends
                IN  /\ Len(trs) = Len(engine.tests)
                    /\ Len(ends) = Len(engine.tests)
                    /\ \A k \in 1..Len(trs) :
                          /\ trs[k].test_index = k - 1
                          /\ IF RemainingBefore(trs, k) <= 0
                             THEN /\ ends[k] = "skipped"
                                  /\ trs[k].status = "time_limit_exceeded"
                                  /\ trs[k].exit_code = 124
                             ELSE ends[k] \in {"ended", "timeout"}

\* An INDIVIDUAL run whose first test used up the budget, so that the second
\* test was not launched.
C33_Witness ==
    /\ engine.pc = "ready"
    /\ engine.strategy = "individual"
    /\ \E r \in 1..Len(engine.runs) :
          /\ engine.runs[r].ends = <<"ended", "skipped">>
          /\ engine.runs[r].result.test_results[2].status = "time_limit_exceeded"
          /\ engine.runs[r].result.test_results[2].exit_code = 124

\* Every input has an entry, in order, and every entry has the given status.
Uniformly(result, status) ==
    /\ Len(result.test_results) = Len(engine.tests)
    /\ \A k \in 1..Len(result.test_results) :
          /\ result.test_results[k].test_index = k - 1
          /\ result.test_results[k].status = status
    /\ result.passed_count = 0

\* C34: under BATCH, when the container exceeds the total timeout every test
\* is reported TIME_LIMIT_EXCEEDED, and when the runner exits non-zero every
\* test is reported RUNTIME_ERROR; either way there is one entry per input
\* and none is SUCCESS.
C34_BatchFailureUniform ==
    (engine.pc = "ready" /\ engine.strategy = "batch") =>
        \A r \in 1..Len(engine.runs) :
            /\ engine.runs[r].ends = <<"container timeout">> =>
                   Uniformly(engine.runs[r].result, "time_limit_exceeded")
            /\ engine.runs[r].ends = <<"nonzero">> =>
                   Uniformly(engine.runs[r].result, "runtime_error")

\* Two tests of a program that prints the expected output and exits 0, one
\* run cut off by the total timeout and one run whose runner exited non-zero.
C34_Witness ==
    /\ engine.pc = "ready"
    /\ engine.strategy = "batch"
    /\ Len(engine.tests) = 2
    /\ \A k \in 1..2 : engine.tests[k].exit_code = 0 /\ engine.tests[k].stdout = engine.tests[k].expected
    /\ Len(engine.runs) = 2
    /\ engine.runs[1].ends = <<"container timeout">>
    /\ engine.runs[1].result.status = "time_limit_exceeded"
    /\ engine.runs[2].ends = <<"nonzero">>
    /\ engine.runs[2].result.status = "runtime_error"

\* Worker w ends, in this step, its judging of submission i.
JudgingEnds(w, i) ==
    /\ wk[w].pc \in {"executing", "handler"}
    /\ wk[w].batch[wk[w].idx] = i
    /\ wk'[w].pc \notin {"executing", "handler", "dead"}

\* What the engine returns for a slug it does not know, having launched
\* nothing.
UnknownLanguageResult(r, n) ==
    /\ r.status = "internal_error"
    /\ r.test_results = <<>>
    /\ r.passed_count = 0
    /\ r.compilation_output
    /\ \A run \in RunConditions("unsupported", n) :
          /\ r = execute(DEFAULT_LIMITS, "unsupported", [k \in 1..n |-> k], run)
          /\ sandbox_ends(DEFAULT_LIMITS, "unsupported", [k \in 1..n |-> k], run) = <<>>

\* C35: the engine returns INTERNAL_ERROR with a message, no test result and
\* passed_count 0 for a slug it does not know, launching nothing; and a
\* submission judged against its test cases in a language the engine does
\* not know, or whose Language row is missing, ends RUNTIME_ERROR with
\* passed = false.
C35_UnknownLanguage ==
    [][\A w \in Workers, i \in 1..MaxSubs :
          /\ (exec_result' # exec_result /\ exec_result'.proc = w /\ exec_result'.id = i) =>
                UnknownLanguageResult(exec_result'.result, Len(wk[w].tests))
          /\ (JudgingEnds(w, i) /\ wk[w].tests # <<>>) =>
                rows'[i].status = "runtime_error" /\ rows'[i].passed = FALSE]_vars

\* Process p completes invalidate_cache in this step.
Invalidates(p) == cache[p].hit /\ ~cache'[p].hit

\* C36: once invalidate_cache has completed in a process, a get_test_cases
\* call by the API process or by any JudgeWorker returns the test cases the
\* store holds.
C36_InvalidateReachesEveryProcess ==
    [][\A p \in Procs :
          Invalidates(p) => \A q \in Procs : get_test_cases(q)' = db_tests']_vars

\* The test cases process p loaded for the judging of submission i it has in
\* hand.
LoadedTests(p, i) == IF p = API THEN bg[i].tests ELSE wk[p].tests

\* run_code returns to process p, judging submission i, in this step.
EngineReturns(p, i) ==
    /\ exec_result' # exec_result
    /\ exec_result'.proc = p
    /\ exec_result'.id = i

\* C37: when a submission is judged through the execution engine, the
\* total_count persisted with the verdict is the number of test cases the
\* judging process loaded.
C37_TotalCountIsLoadedCount ==
    [][\A p \in Procs, i \in 1..MaxSubs :
          EngineReturns(p, i) => rows'[i].total_count = Len(LoadedTests(p, i))]_vars

\* C38: a submission judged against a non-empty test list is persisted
\* ACCEPTED by a judging run only with passed_count equal to the number of
\* test cases that run loaded and one results entry per loaded test case.
C38_AcceptedMeansAllPassed ==
    [][\A p \in Procs, i \in 1..MaxSubs :
          (EngineReturns(p, i) /\ LoadedTests(p, i) # <<>> /\ rows'[i].status = "accepted") =>
              /\ rows'[i].passed_count = Len(LoadedTests(p, i))
              /\ Len(rows'[i].results) = Len(LoadedTests(p, i))]_vars

\* The payload the PUBLISH of this step puts on the channel of submission i.
Published(i) == channel_log'[i][Len(channel_log'[i])]

\* The elements of a sequence.
Elements(seq) == {seq[k] : k \in DOMAIN seq}

\* C39: a payload published for the submission of a connected viewer after
\* the viewer's snapshot read, the window before the subscription included,
\* reaches the viewer's connection to be forwarded, unless the snapshot
\* already carried it.
C39_NoUpdateLost ==
    [][\A v \in Viewers, i \in 1..MaxSubs :
          (/\ channel_log'[i] # channel_log[i]
           /\ sockets[v].pc \in {"accepted", "listening"}
           /\ sockets[v].id = i
           /\ Published(i) \notin Elements(sockets[v].sent))
              => Published(i) \in Elements(sockets'[v].inbox)]_vars

\* Two parsed documents are structurally equal: the same nesting, and in
\* each place the same literal or numbers of the same value.
StructurallyEqual(x, y) == x = y

\* C40: two outputs match exactly when they are equal after stripping the
\* surrounding whitespace or both parse as JSON to structurally equal
\* values; outputs that differ after stripping, one of which does not
\* parse, do not match; an output matches itself, and a match does not
\* depend on the order of the two arguments.
C40_MatchRelation ==
    engine.pc = "compared" =>
        LET a == strip(engine.actual)
            e == strip(engine.expected)
            x == json_loads(a)
            y == json_loads(e)
        IN  /\ engine.matched <=> (a = e \/ (x.ok /\ y.ok /\ StructurallyEqual(x.toks, y.toks)))
            /\ (a # e /\ (~x.ok \/ ~y.ok)) => ~engine.matched
            /\ engine.actual = engine.expected => engine.matched
            /\ engine.matched = outputs_match(engine.expected, engine.actual)

====
